---- MODULE Spec2Model ----
(***************************************************************************)
(* State-machine model of the API protection subsystem of                  *)
(* datadog-ux-utils: the rate guard (src/src/api/rateGuard.ts), the        *)
(* circuit breaker (src/src/api/circuitBreaker.ts) and the request         *)
(* de-duplication layer (dedupe.ts, src/unnamed/part_012).                 *)
(*                                                                         *)
(* JavaScript is single threaded: a handler runs without interruption up   *)
(* to its next `await` (or its return).  Every action below is one such    *)
(* uninterrupted run; a suspended async function is a call slot whose pc   *)
(* names the await it is parked at.  Date.now() is the variable `now`,     *)
(* which only the action Tick advances.                                    *)
(***************************************************************************)
EXTENDS Integers, Sequences, FiniteSets, TLC

VARIABLES
    now,            \* Date.now()
    guardEnabled,   \* flags.guardEnabled                    (flags.ts:6-9)
    cfg,            \* ApiRateGuard.cfg                      (rateGuard.ts:81)
    buckets,        \* ApiRateGuard.buckets: key -> Bucket   (rateGuard.ts:82)
    timers,         \* pending setTimeout callbacks of waitUntil
    calls,          \* one slot per guard()/guardFetch() call
    flagChanges,    \* history: the number of setFlags calls that changed guardEnabled
    breakers,       \* circuitBreaker.ts `breakers`: key -> breaker (circuitBreaker.ts:25-34)
    bcalls,         \* one slot per wrapWithBreaker() call
    streak,         \* history: key -> operation failures since the key's last success
    bactions,       \* the addAction calls of the breaker's last step, in order
    inFlight,       \* dedupe.ts `inFlight`: key -> Entry         (part_012:16)
    entries,        \* the Entry objects and their executions     (part_012:67-72)
    dcalls,         \* one slot per dedupe() call
    dtimers,        \* pending eviction timers                    (part_012:85-90)
    cleared,        \* history: keys whose pending entry clearDedupe removed
    clears,         \* history: the number of clearDedupe calls that removed an entry
    rejectedKeys,   \* history: keys whose op rejected, with no dedupe call since
    rcall,          \* the frame of a retry() call                (part_010:61-107)
    hasWindow,      \* typeof window !== "undefined"              (datadog.ts:63)
    navigator,      \* navigator.onLine: "online", "offline", or "absent" (no navigator)
    isInitialized,  \* datadog.ts `_isInitialized`                (datadog.ts:45)
    telemetryEnabled, \* flags.telemetryEnabled                   (flags.ts:6-9)
    senders,        \* whether __DD_SEND_ACTION__ / __DD_SEND_ERROR__ are set
    enqueueHook,    \* whether __DD_ENQUEUE_ACTION__ / __DD_ENQUEUE_ERROR__ are set
    sampleRates,    \* `_actionSampleRate`, `_errorSampleRate`    (datadog.ts:46-47)
    dlog,           \* history: the hooks addAction/addError called, in order
    dlast,          \* history: the last addAction/addError call
    queue,          \* offlineQueue.ts `queue`                    (part_013:15)
    maxBuffered,    \* offlineQueue.ts `maxBuffered`              (part_013:16)
    installed,      \* offlineQueue.ts `installed`                (part_013:17)
    realLog,        \* history: the events passed to the real addAction/addError
    offlineSince,   \* history: the events enqueued since the queue was last emptied
    submitted,      \* history: the number of calls of the wrapped addAction/addError
    pcfg,           \* offlineQueue.persistent.ts `cfg`           (line 37)
    q,              \* offlineQueue.persistent.ts `q`             (line 38)
    pinstalled,     \* offlineQueue.persistent.ts `installed`     (line 39)
    writeTimer,     \* offlineQueue.persistent.ts `writeTimer`    (line 40)
    storage,        \* the localStorage item under cfg.storageKey
    quota,          \* the longest value localStorage.setItem accepts for the item
    pflush,         \* history: the tryFlush run or the timer's write of the queue's last step
    handed,         \* history: the number of calls of the enqueue hooks
    insts,          \* the FlowInstance objects of the startFlow calls (flowTimer.ts:45-50)
    activeFlows,    \* flowTimer.ts `activeFlows`: id -> FlowInstance (flowTimer.ts:24)
    flowActions     \* history: per flow, the telemetry calls made for it, in order

guardVars == <<guardEnabled, cfg, buckets, timers, calls, flagChanges>>

breakerVars == <<breakers, bcalls, streak, bactions>>

dedupeVars == <<inFlight, entries, dcalls, dtimers, cleared, clears, rejectedKeys>>

retryVars == <<rcall>>

envVars == <<hasWindow, navigator>>

dispatchVars ==
    <<isInitialized, telemetryEnabled, senders, enqueueHook, sampleRates, dlog, dlast>>

memQueueVars == <<queue, maxBuffered, installed, realLog, offlineSince, submitted>>

persistVars ==
    <<pcfg, q, pinstalled, writeTimer, storage, quota, pflush, handed>>

flowVars == <<insts, activeFlows, flowActions>>

vars ==
    <<now, guardVars, breakerVars, dedupeVars, retryVars, envVars, dispatchVars,
      memQueueVars, persistVars, flowVars>>

(* What a step of one component leaves alone: the other components. *)
telemetryVars == <<envVars, dispatchVars, memQueueVars, persistVars, flowVars>>
notGuard == <<breakerVars, dedupeVars, retryVars, telemetryVars>>
notBreaker == <<guardVars, dedupeVars, retryVars, telemetryVars>>
notDedupe == <<guardVars, breakerVars, retryVars, telemetryVars>>
notRetry == <<now, guardVars, breakerVars, dedupeVars, telemetryVars>>
notDispatch ==
    <<now, guardVars, breakerVars, dedupeVars, retryVars, hasWindow, memQueueVars,
      persistVars, flowVars>>
notMemQueue ==
    <<now, guardVars, breakerVars, dedupeVars, retryVars, hasWindow, dispatchVars,
      persistVars, flowVars>>
notPersist ==
    <<guardVars, breakerVars, dedupeVars, retryVars, hasWindow, memQueueVars,
      isInitialized, telemetryEnabled, sampleRates, dlog, dlast, flowVars>>
notFlow ==
    <<now, guardVars, breakerVars, dedupeVars, retryVars, envVars, dispatchVars,
      memQueueVars, persistVars>>

----------------------------------------------------------------------------
(* Bounds of the model *)

MaxFlows == 3          \* startFlow calls

MaxCalls == 3          \* guard()/guardFetch() calls in one behaviour
Horizon == 2           \* clock ticks in one behaviour
MaxRequestsBound == 2  \* maxRequests ranges over 1..MaxRequestsBound
WindowMs == 1          \* the configured windowMs
ShortBlockMs == 2      \* the explicit blockDurationMs that is tried
MaxFlagChanges == 1    \* changes of flags.guardEnabled in one behaviour

(* reportDebounceMs: the default is 5000 ms; the model's clock counts in    *)
(* coarser units and uses one window length.                                *)
ReportDebounceMs == WindowMs

(* Date.now() is far from 0 (epoch ms), so `lastReportAt: 0` means "never"  *)
(* and `now - windowMs` is positive.                                        *)
StartTime == ReportDebounceMs + WindowMs + 1
MaxTime == StartTime + Horizon

Keys == {"a", "b"}
CallIds == 1..MaxCalls

MaxBreakerCalls == 4   \* wrapWithBreaker() calls in one behaviour
BreakerHorizon == 4    \* clock ticks in one behaviour of the breaker
MaxThreshold == 2      \* failureThreshold ranges over 1..MaxThreshold
CooldownMs == 2        \* the cooldownMs the callers pass

BreakerKeys == {"svc"}
BCallIds == 1..MaxBreakerCalls

MaxDedupeCalls == 3    \* dedupe() calls in one behaviour
DedupeHorizon == 3     \* clock ticks in one behaviour of dedupe
MaxClears == 1         \* clearDedupe calls that remove an entry, in one behaviour
TickMs == 25           \* the dedupe clock advances in steps of TickMs
TtlMs == 50            \* the positive ttlMs the callers pass

(* part_012:90: the eviction timer runs ttlMs + 25 after resolution *)
EvictSlackMs == 25

DedupeKeys == {"x", "y"}
DCallIds == 1..MaxDedupeCalls

MaxRetries == 2        \* retries ranges over 0..MaxRetries
MaxBaseMs == 2         \* baseMs ranges over 1..MaxBaseMs
RetryMaxMs == 3        \* the maxMs the callers pass
BackoffFactor == 2     \* the factor the callers pass

MaxDispatches == 2     \* addAction/addError calls in one behaviour
HalfPct == 50          \* a sample rate strictly between 0 and 100

(* datadog.ts:243: percentages are clamped to 0..100 *)
FullPct == 100

MaxBufferedBound == 2  \* maxBufferedEvents ranges over 0..MaxBufferedBound
MaxMemEvents == 4      \* calls of the wrapped addAction/addError in one behaviour

(* part_013:16 and 24: the default maxBuffered *)
DefaultMaxBuffered == 200

MaxStored == 2           \* events an earlier session left in storage
MaxPEvents == 2          \* calls of the enqueue hooks in one behaviour
PersistMaxBufferedBound == 1  \* the maxBuffered option, when given
EventBytes == 3          \* serialized length of one event
ByteCapBound == 9        \* the byteCap option, when given
QuotaBound == 5          \* a storage with little room left
WriteDebounceBound == 1  \* the writeDebounceMs option, when given
PersistHorizon == 2      \* the clock runs to StartTime + PersistHorizon

(* offlineQueue.persistent.ts:31, 32 and 34 *)
DefaultPersistentMaxBuffered == 400
DefaultByteCap == 1500000
DefaultWriteDebounceMs == 150

----------------------------------------------------------------------------
(* Rate guard: src/src/api/rateGuard.ts *)

Strategies == {"block", "queue", "drop"}

(* The constructor (rateGuard.ts:84-97): blockDurationMs 0 or absent becomes *)
(* windowMs, the other options keep their value or take the default.          *)
ApiRateGuard(config) ==
    [ windowMs         |-> config.windowMs,
      maxRequests      |-> config.maxRequests,
      blockDurationMs  |-> IF config.blockDurationMs # 0
                             THEN config.blockDurationMs ELSE config.windowMs,
      reportDebounceMs |-> ReportDebounceMs,
      countOnFailure   |-> config.countOnFailure,
      overflowStrategy |-> config.overflowStrategy,
      allowKey         |-> config.allowKey ]

(* The configurations tried.  allowKey is the set of keys it accepts: "a"   *)
(* is guarded, "b" is a key the filter exempts.                             *)
Configs ==
    [ windowMs         : {WindowMs},
      maxRequests      : 1..MaxRequestsBound,
      blockDurationMs  : {0, ShortBlockMs},
      countOnFailure   : BOOLEAN,
      overflowStrategy : Strategies,
      allowKey         : {{"a"}} ]

NoResult == [type |-> "none", key |-> "", until |-> 0, windowMs |-> 0, maxRequests |-> 0]
OkResult == [NoResult EXCEPT !.type = "ok"]
FailResult == [NoResult EXCEPT !.type = "fail"]

(* ApiRunawayBlockedError with `until` computed afresh from the clock      *)
(* instead of read from the bucket.                                        *)
ApiRunawayBlockedErrorFresh(key, c, b) ==
    [ type        |-> "ApiRunawayBlockedError",
      key         |-> key,
      until       |-> now + c.blockDurationMs,
      windowMs    |-> c.windowMs,
      maxRequests |-> c.maxRequests ]

(* new ApiRunawayBlockedError(key, cfg, b)  (rateGuard.ts:276-293) *)
ApiRunawayBlockedError(key, c, b) ==
    [ type        |-> "ApiRunawayBlockedError",
      key         |-> key,
      until       |-> b.blockedUntil,
      windowMs    |-> c.windowMs,
      maxRequests |-> c.maxRequests ]

(* A call slot.  pc:                                                         *)
(*   idle     not called yet                                                 *)
(*   ready    beforeRequest returned; guard() is parked at                   *)
(*            `await this.beforeRequest(key)` (rateGuard.ts:135)             *)
(*   wait1    parked in waitUntil at rateGuard.ts:175 (bucket was blocked)   *)
(*   resume1  released from wait1, continuation not yet run                  *)
(*   wait2    parked in waitUntil at rateGuard.ts:199 (limit exceeded)       *)
(*   resume2  released from wait2, continuation not yet run                  *)
(*   running  call()/fetch() has been invoked and has not settled            *)
(*   done     the promise returned by guard() has settled                    *)
(* at = the `now` read at rateGuard.ts:165; guarded = allowKey(key) held;    *)
(* overflow = the reason for which beforeRequest applied the overflow        *)
(* strategy to the call ("none" when it did not); invoked = the wrapped      *)
(* operation was called; until = the ts the call last passed to waitUntil    *)
(* (0 when it never waited); bucket = the Bucket object b that the frame of  *)
(* beforeRequest holds while it waits, by its name in `buckets` ("" when it  *)
(* never waited); hit = the timestamp that the call's beforeRequest left in *)
(* hits when it returned (0 when it left none); invokedAt = the time at     *)
(* which the operation was invoked (0 before).                               *)
IdleCall ==
    [ pc |-> "idle", key |-> "a", at |-> 0, guarded |-> FALSE,
      overflow |-> "none", invoked |-> FALSE, result |-> NoResult, until |-> 0,
      bucket |-> "", hit |-> 0, invokedAt |-> 0 ]

HasBucket(k) == k \in DOMAIN buckets

(* getBucket (rateGuard.ts:155-162): the bucket of key, created if absent *)
NewBucket == [hits |-> <<>>, blockedUntil |-> 0, lastReportAt |-> 0, waiters |-> <<>>]
getBucket(k) == IF HasBucket(k) THEN buckets[k] ELSE NewBucket

(* this.buckets.set(key, b), and every later write through the reference b *)
SetBucket(k, b) ==
    [x \in DOMAIN buckets \cup {k} |-> IF x = k THEN b ELSE buckets[x]]

(* pruneHits with the comparison off by one: a hit exactly windowMs old is *)
(* dropped too.                                                            *)
RECURSIVE pruneHitsEager(_, _, _)
pruneHitsEager(t, w, hits) ==
    IF hits # <<>> /\ Head(hits) <= t - w
      THEN pruneHitsEager(t, w, Tail(hits))
      ELSE hits

(* prune (rateGuard.ts:224-228): drop from the front while older than the window *)
RECURSIVE pruneHits(_, _, _)
pruneHits(t, w, hits) ==
    IF hits # <<>> /\ Head(hits) < t - w
      THEN pruneHits(t, w, Tail(hits))
      ELSE hits

prune(t, b) == [b EXCEPT !.hits = pruneHits(t, cfg.windowMs, @)]

(* b.hits.pop() *)
(* A roll-back that would leave the tentative timestamp in place. *)
popKeeps(hits) == hits

pop(hits) == IF hits = <<>> THEN hits ELSE SubSeq(hits, 1, Len(hits) - 1)

(* maybeReport (rateGuard.ts:230-253): the debounce stamp; the action sent   *)
(* through addAction leaves the guard's state alone.                          *)
maybeReport(t, b) ==
    IF t - b.lastReportAt < cfg.reportDebounceMs
      THEN b
      ELSE [b EXCEPT !.lastReportAt = t]

(* waitUntil (rateGuard.ts:255-268) called by call c for bucket b of key k: *)
(* an already-resolved promise when the time has come, else c joins          *)
(* b.waiters and a timer for ts is set.  WaitParks says which.               *)
WaitParks(ts) == now < ts
waitUntilBucket(c, ts, b) ==
    IF WaitParks(ts) THEN [b EXCEPT !.waiters = Append(@, c)] ELSE b
waitUntilTimers(k, ts) ==
    IF WaitParks(ts) THEN timers \cup {[key |-> k, at |-> ts]} ELSE timers

(* rateGuard.ts:186-211, run by call c (slot value cur) with its `now` = t  *)
(* on bucket b of key k: count the request, and apply the overflow strategy *)
(* when the window holds more than maxRequests.                             *)
countRequest(c, cur, k, t, b) ==
    LET b3 == prune(t, [b EXCEPT !.hits = Append(@, t)])
        b4 == maybeReport(t, [b3 EXCEPT !.blockedUntil = t + cfg.blockDurationMs])
        b5 == [b4 EXCEPT !.hits = pop(@)]
    IN  IF Len(b3.hits) > cfg.maxRequests
          THEN
            CASE cfg.overflowStrategy = "queue" ->
                   /\ buckets' = SetBucket(k, waitUntilBucket(c, b4.blockedUntil, b5))
                   /\ timers' = waitUntilTimers(k, b4.blockedUntil)
                   /\ calls' = [calls EXCEPT ![c] =
                         [cur EXCEPT !.overflow = "threshold_exceeded",
                                     !.until = b4.blockedUntil,
                                     !.bucket = k,
                                     !.pc = IF WaitParks(b4.blockedUntil)
                                              THEN "wait2" ELSE "resume2"]]
              [] cfg.overflowStrategy = "drop" ->
                   /\ buckets' = SetBucket(k, b5)
                   /\ timers' = timers
                   /\ calls' = [calls EXCEPT ![c] =
                         [cur EXCEPT !.overflow = "threshold_exceeded", !.pc = "ready"]]
              [] OTHER ->
                   /\ buckets' = SetBucket(k, b5)
                   /\ timers' = timers
                   /\ calls' = [calls EXCEPT ![c] =
                         [cur EXCEPT !.overflow = "threshold_exceeded", !.pc = "done",
                                     !.result = ApiRunawayBlockedError(k, cfg, b5)]]
          ELSE
            /\ buckets' = SetBucket(k, b3)
            /\ timers' = timers
            /\ calls' = [calls EXCEPT ![c] = [cur EXCEPT !.pc = "ready", !.hit = t]]

(* beforeRequest (rateGuard.ts:164-212) up to its first await, its return   *)
(* or its throw.                                                            *)
beforeRequest(c, cur, k) ==
    LET t == now
        b1 == prune(t, getBucket(k))
        b2 == maybeReport(t, b1)
    IN  IF ~guardEnabled
          THEN
            /\ calls' = [calls EXCEPT ![c] = [cur EXCEPT !.pc = "ready"]]
            /\ UNCHANGED <<buckets, timers>>
          ELSE
            IF b1.blockedUntil > t
              THEN
                CASE cfg.overflowStrategy = "queue" ->
                       /\ buckets' = SetBucket(k, waitUntilBucket(c, b1.blockedUntil, b1))
                       /\ timers' = waitUntilTimers(k, b1.blockedUntil)
                       /\ calls' = [calls EXCEPT ![c] =
                             [cur EXCEPT !.overflow = "blocked_active",
                                         !.until = b1.blockedUntil,
                                         !.bucket = k,
                                         !.pc = IF WaitParks(b1.blockedUntil)
                                                  THEN "wait1" ELSE "resume1"]]
                  [] cfg.overflowStrategy = "drop" ->
                       /\ buckets' = SetBucket(k, b2)
                       /\ timers' = timers
                       /\ calls' = [calls EXCEPT ![c] =
                             [cur EXCEPT !.overflow = "blocked_active", !.pc = "ready"]]
                  [] OTHER ->
                       /\ buckets' = SetBucket(k, b2)
                       /\ timers' = timers
                       /\ calls' = [calls EXCEPT ![c] =
                             [cur EXCEPT !.overflow = "blocked_active", !.pc = "done",
                                         !.result = ApiRunawayBlockedError(k, cfg, b2)]]
              ELSE countRequest(c, cur, k, t, b1)

(* Calls are numbered in the order they are made. *)
NextCall(c) == calls[c].pc = "idle" /\ (IF c = 1 THEN TRUE ELSE calls[c - 1].pc # "idle")

(* What a call records on arrival: its key and the clock. *)
Arrive(k) == [IdleCall EXCEPT !.key = k, !.at = now]

(* guard(key, call) (rateGuard.ts:132-145) up to its first await: keys that *)
(* allowKey refuses go straight to call(), the others through beforeRequest. *)
guard(c, k) ==
    /\ NextCall(c)
    /\ IF k \notin cfg.allowKey
         THEN /\ calls' = [calls EXCEPT ![c] =
                    [Arrive(k) EXCEPT !.pc = "running", !.invoked = TRUE,
                                      !.invokedAt = now]]
              /\ UNCHANGED <<buckets, timers>>
         ELSE beforeRequest(c, [Arrive(k) EXCEPT !.guarded = TRUE], k)
    /\ UNCHANGED <<notGuard, now, guardEnabled, cfg, flagChanges>>

(* guardFetch(input, init) (rateGuard.ts:103-125): the same steps with the  *)
(* key computed by keyFn and fetch as the operation.                        *)
guardFetch(c, k) == guard(c, k)

(* guard() resumes after `await this.beforeRequest(key)` and invokes call() *)
(* (rateGuard.ts:137-138; guardFetch: 115-116).                             *)
Invoke(c) ==
    /\ calls[c].pc = "ready"
    /\ calls' = [calls EXCEPT ![c].pc = "running", ![c].invoked = TRUE,
                              ![c].invokedAt = now]
    /\ UNCHANGED <<notGuard, now, guardEnabled, cfg, buckets, timers, flagChanges>>

(* afterRequest (rateGuard.ts:214-222) *)
afterRequest(k, count) ==
    IF count
      THEN buckets
      ELSE SetBucket(k, [getBucket(k) EXCEPT !.hits = pop(@)])

(* The operation settles: guard() runs afterRequest and settles its own     *)
(* promise the same way (rateGuard.ts:138-144).                             *)
Settle(c, ok) ==
    /\ calls[c].pc = "running"
    /\ calls' = [calls EXCEPT ![c].pc = "done",
                              ![c].result = IF ok THEN OkResult ELSE FailResult]
    /\ buckets' = IF calls[c].guarded
                    THEN afterRequest(calls[c].key, ok \/ cfg.countOnFailure)
                    ELSE buckets
    /\ UNCHANGED <<notGuard, now, guardEnabled, cfg, timers, flagChanges>>

(* A continuation that is ready to run sits in the microtask queue, which  *)
(* the engine drains before it runs a timer callback (a macrotask); the    *)
(* clock does not advance during the drain.                                *)
MicrotaskPending == \E c \in CallIds : calls[c].pc \in {"ready", "resume1", "resume2"}

(* The setTimeout callback of waitUntil (rateGuard.ts:261-266): every       *)
(* waiter of the bucket is released.  A timer may fire late, never early.   *)
Release(cs, w) ==
    [c \in CallIds |->
        IF \E i \in 1..Len(w) : w[i] = c
          THEN [cs[c] EXCEPT !.pc = IF @ = "wait1" THEN "resume1" ELSE "resume2"]
          ELSE cs[c]]

TimerFire(tm) ==
    /\ tm \in timers
    /\ now >= tm.at
    /\ ~MicrotaskPending
    /\ timers' = timers \ {tm}
    /\ buckets' = [buckets EXCEPT ![tm.key].waiters = <<>>]
    /\ calls' = Release(calls, buckets[tm.key].waiters)
    /\ UNCHANGED <<notGuard, now, guardEnabled, cfg, flagChanges>>

(* The continuation after the wait at rateGuard.ts:175: falls through to    *)
(* rateGuard.ts:186 with the `now` the call read on arrival.                *)
Resume1(c) ==
    /\ calls[c].pc = "resume1"
    /\ countRequest(c, calls[c], calls[c].bucket, calls[c].at, buckets[calls[c].bucket])
    /\ UNCHANGED <<notGuard, now, guardEnabled, cfg, flagChanges>>

(* The continuation after the wait at rateGuard.ts:199: re-adds the hit     *)
(* with the current time (rateGuard.ts:201-202) and returns.                *)
Resume2(c) ==
    /\ calls[c].pc = "resume2"
    /\ buckets' = SetBucket(calls[c].bucket,
                     prune(now, [buckets[calls[c].bucket] EXCEPT !.hits = Append(@, now)]))
    /\ calls' = [calls EXCEPT ![c].pc = "ready", ![c].hit = now]
    /\ UNCHANGED <<notGuard, now, guardEnabled, cfg, timers, flagChanges>>

(* setFlags({guardEnabled}) (flags.ts:18-21) *)
setFlags(v) ==
    /\ guardEnabled # v
    /\ flagChanges < MaxFlagChanges
    /\ guardEnabled' = v
    /\ flagChanges' = flagChanges + 1
    /\ UNCHANGED <<notGuard, now, cfg, buckets, timers, calls>>

(* Time passes. *)
TickGuard ==
    /\ now < MaxTime
    /\ ~MicrotaskPending
    /\ now' = now + 1
    /\ UNCHANGED <<notGuard, guardVars>>

(* The state after `new ApiRateGuard(config)` with the given strategy. *)
InitGuard(strategy) ==
    /\ now = StartTime
    /\ guardEnabled = TRUE
    /\ cfg \in {ApiRateGuard(config) :
                  config \in {x \in Configs : x.overflowStrategy = strategy}}
    /\ buckets = <<>>
    /\ timers = {}
    /\ calls = [c \in CallIds |-> IdleCall]
    /\ flagChanges = 0

(* The steps of a guard whose strategy never suspends a caller *)
NextGuard ==
    \/ \E c \in CallIds, k \in Keys : guard(c, k)
    \/ \E c \in CallIds, k \in Keys : guardFetch(c, k)
    \/ \E c \in CallIds : Invoke(c)
    \/ \E c \in CallIds, ok \in BOOLEAN : Settle(c, ok)
    \/ \E v \in BOOLEAN : setFlags(v)
    \/ TickGuard

(* A name for a Bucket object that the map no longer holds: the key it had, *)
(* primed until the name is free.                                           *)
RECURSIVE FreshName(_, _)
FreshName(name, taken) ==
    IF name \in taken THEN FreshName(name \o "'", taken) ELSE name

(* The frame of call c is inside beforeRequest and holds Bucket object n. *)
HoldsBucket(cs, c, n) ==
    cs[c].bucket = n /\ cs[c].pc \in {"wait1", "wait2", "resume1", "resume2"}

(* A delete that would take the object's pending timers with it. *)
bucketsDeleteDropsTimers(st, k) ==
    LET held == \E c \in CallIds : HoldsBucket(st.calls, c, k)
        o == FreshName(k \o "'", DOMAIN st.buckets)
        rest == [x \in DOMAIN st.buckets \ {k} |-> st.buckets[x]]
    IN  IF k \notin DOMAIN st.buckets THEN st
        ELSE [buckets |-> IF held
                            THEN [x \in DOMAIN rest \cup {o} |->
                                    IF x = o THEN st.buckets[k] ELSE rest[x]]
                            ELSE rest,
              timers |-> {tm \in st.timers : tm.key # k},
              calls |-> [c \in CallIds |->
                           IF HoldsBucket(st.calls, c, k)
                             THEN [st.calls[c] EXCEPT !.bucket = o] ELSE st.calls[c]]]

(* this.buckets.delete(key) (rateGuard.ts:149) on the guard state st: the   *)
(* map forgets the object.  The frames that wait on it and the timers of    *)
(* its waitUntil calls keep their reference to it, so the object lives on   *)
(* under a fresh name; an object nobody holds is gone with its timers.      *)
bucketsDelete(st, k) ==
    LET held == \E c \in CallIds : HoldsBucket(st.calls, c, k)
        o == FreshName(k \o "'", DOMAIN st.buckets)
        rest == [x \in DOMAIN st.buckets \ {k} |-> st.buckets[x]]
    IN  IF k \notin DOMAIN st.buckets THEN st
        ELSE IF held
          THEN [buckets |-> [x \in DOMAIN rest \cup {o} |->
                               IF x = o THEN st.buckets[k] ELSE rest[x]],
                timers |-> {IF tm.key = k THEN [tm EXCEPT !.key = o] ELSE tm :
                              tm \in st.timers},
                calls |-> [c \in CallIds |->
                             IF HoldsBucket(st.calls, c, k)
                               THEN [st.calls[c] EXCEPT !.bucket = o] ELSE st.calls[c]]]
          ELSE [buckets |-> rest,
                timers |-> {tm \in st.timers : tm.key # k},
                calls |-> st.calls]

(* this.buckets.clear() (rateGuard.ts:150) *)
RECURSIVE bucketsClear(_, _)
bucketsClear(st, ks) ==
    IF ks = {} THEN st
    ELSE LET k == CHOOSE x \in ks : TRUE
         IN  bucketsClear(bucketsDelete(st, k), ks \ {k})

(* reset(key) (rateGuard.ts:147-151); key "" stands for a call without key *)
reset(key) ==
    LET st == [buckets |-> buckets, timers |-> timers, calls |-> calls]
        after == IF key # "" THEN bucketsDelete(st, key) ELSE bucketsClear(st, Keys)
    IN  /\ after # st
        /\ buckets' = after.buckets
        /\ timers' = after.timers
        /\ calls' = after.calls
        /\ UNCHANGED <<notGuard, now, guardEnabled, cfg, flagChanges>>

(* Time passes beyond the horizon while a timer is still to come due. *)
TickWaiting ==
    /\ now >= MaxTime
    /\ ~MicrotaskPending
    /\ \E tm \in timers : tm.at > now
    /\ now' = now + 1
    /\ UNCHANGED <<notGuard, guardVars>>

(* The steps of a guard with strategy 'queue' *)
NextQueue ==
    \/ NextGuard
    \/ \E tm \in timers : TimerFire(tm)
    \/ \E c \in CallIds : Resume1(c)
    \/ \E c \in CallIds : Resume2(c)

(* The steps of a guard with strategy 'queue' whose buckets are reset *)
NextQueueReset ==
    \/ \E c \in CallIds : guard(c, "a")
    \/ \E c \in CallIds : Invoke(c)
    \/ \E c \in CallIds, ok \in BOOLEAN : Settle(c, ok)
    \/ \E tm \in timers : TimerFire(tm)
    \/ \E c \in CallIds : Resume1(c)
    \/ \E c \in CallIds : Resume2(c)
    \/ \E key \in Keys \cup {""} : reset(key)
    \/ TickGuard
    \/ TickWaiting

(* The event loop runs what is runnable: continuations, due timers, and the *)
(* clock moves on.                                                          *)
FairQueue ==
    /\ WF_vars(\E c \in CallIds : Invoke(c))
    /\ WF_vars(\E c \in CallIds : Resume1(c))
    /\ WF_vars(\E c \in CallIds : Resume2(c))
    /\ WF_vars(\E tm \in timers : TimerFire(tm))
    /\ WF_vars(TickGuard)
    /\ WF_vars(TickWaiting)

----------------------------------------------------------------------------
(* Circuit breaker: src/src/api/circuitBreaker.ts *)

(* defaults (circuitBreaker.ts:20) *)
defaults == [failureThreshold |-> 5, cooldownMs |-> 10000, halfOpenMax |-> 2]

(* The cfg arguments the callers pass (Partial<BreakerCfg>): thresholds and *)
(* a cooldown small enough to be reached, halfOpenMax given or left to the  *)
(* default.                                                                 *)
BreakerCfgs ==
    [failureThreshold : 1..MaxThreshold, cooldownMs : {CooldownMs}]
      \cup [failureThreshold : 1..MaxThreshold, cooldownMs : {CooldownMs},
            halfOpenMax : {1}]

(* { ...defaults, ...cfg } (circuitBreaker.ts:111) *)
mergeCfg(c) ==
    [f \in DOMAIN defaults |-> IF f \in DOMAIN c THEN c[f] ELSE defaults[f]]

HasBreaker(k) == k \in DOMAIN breakers

(* getBreaker (circuitBreaker.ts:103-116): the key's breaker, created with  *)
(* the caller's cfg when absent; a later caller's cfg is not looked at.     *)
getBreaker(k, c) ==
    IF HasBreaker(k)
      THEN breakers[k]
      ELSE [ state |-> "closed", failures |-> 0, nextTry |-> 0,
             halfOpenInFlight |-> 0, cfg |-> mergeCfg(c) ]

(* breakers.set(key, b), and every later write through the reference b *)
SetBreaker(k, b) ==
    [x \in DOMAIN breakers \cup {k} |-> IF x = k THEN b ELSE breakers[x]]

(* mkErr (circuitBreaker.ts:149-155): the message names the circuit state,  *)
(* the key and `until`; the name is always ApiCircuitOpenError.             *)
NoOutcome == [name |-> "none", circuit |-> "", key |-> "", until |-> 0]
mkErr(state, key, until) ==
    [name |-> "ApiCircuitOpenError", circuit |-> state, key |-> key, until |-> until]
Resolved == [NoOutcome EXCEPT !.name = "ok"]
Rejected == [NoOutcome EXCEPT !.name = "fail"]

(* onSuccess that closes the breaker and forgets to reset the counter *)
onSuccessKeepsCount(b) == [b EXCEPT !.state = "closed"]

(* onSuccess (circuitBreaker.ts:122-128) *)
onSuccess(b) == [b EXCEPT !.failures = 0, !.state = "closed"]

(* onFailure that opens only above the threshold *)
onFailureLate(b) ==
    LET b1 == [b EXCEPT !.failures = @ + 1]
    IN  IF b1.state = "half" \/ b1.failures > b1.cfg.failureThreshold
          THEN [b1 EXCEPT !.state = "open", !.nextTry = now + b1.cfg.cooldownMs]
          ELSE b1

(* onFailure (circuitBreaker.ts:134-141) *)
onFailure(b) ==
    LET b1 == [b EXCEPT !.failures = @ + 1]
    IN  IF b1.state = "half" \/ b1.failures >= b1.cfg.failureThreshold
          THEN [b1 EXCEPT !.state = "open", !.nextTry = now + b1.cfg.cooldownMs]
          ELSE b1

(* The addAction calls of onSuccess (circuitBreaker.ts:124-127), of        *)
(* onFailure (136-140) and of the open branch of wrapWithBreaker (73-77)   *)
(* on breaker b as the function finds it.                                  *)
onSuccessActions(b) ==
    IF b.state # "closed" THEN <<"api_circuit_closed">> ELSE <<>>
onFailureActions(b) ==
    IF b.state = "half" \/ b.failures + 1 >= b.cfg.failureThreshold
      THEN <<"api_circuit_open">> ELSE <<>>
halfOpenActions(b) ==
    IF b.state = "open" /\ ~(now < b.nextTry)
      THEN <<"api_circuit_half_open">> ELSE <<>>

(* The finally block (circuitBreaker.ts:92-94) *)
finallyBlock(b) ==
    IF b.state = "half" THEN [b EXCEPT !.halfOpenInFlight = @ - 1] ELSE b

(* A call slot of wrapWithBreaker.  pc: idle, running (fn() was invoked and *)
(* has not settled), done.  admitted: "no", or how the call got through:    *)
(* "closed" (the breaker was closed), "reopen" (the call found the breaker  *)
(* open with the cooldown over and made it half-open), "half" (it found it  *)
(* half-open).  The last two are the half-open probes.                      *)
IdleBCall ==
    [pc |-> "idle", key |-> "svc", admitted |-> "no", outcome |-> NoOutcome]

NextBCall(c) == bcalls[c].pc = "idle" /\ (IF c = 1 THEN TRUE ELSE bcalls[c - 1].pc # "idle")

(* A transition that would also restart the probe count of a breaker that *)
(* is half-open already.                                                   *)
halfOpenRestartsCount(b) ==
    IF b.state = "half" \/ (b.state = "open" /\ ~(now < b.nextTry))
      THEN [b EXCEPT !.state = "half", !.halfOpenInFlight = 0]
      ELSE b

(* circuitBreaker.ts:70-78: an open breaker whose cooldown is over becomes  *)
(* half-open with a fresh in-flight counter.                                *)
halfOpen(b) ==
    IF b.state = "open" /\ ~(now < b.nextTry)
      THEN [b EXCEPT !.state = "half", !.halfOpenInFlight = 0]
      ELSE b

(* wrapWithBreaker (circuitBreaker.ts:62-95) up to its first await: the     *)
(* checks, the in-flight count and the call of fn(), or the throw.          *)
wrapWithBreaker(c, k, cin) ==
    LET b0 == getBreaker(k, cin)
        b1 == halfOpen(b0)
        b2 == IF b1.state = "half" THEN [b1 EXCEPT !.halfOpenInFlight = @ + 1] ELSE b1
        arrived == [IdleBCall EXCEPT !.key = k]
    IN  /\ NextBCall(c)
        /\ IF b0.state = "open" /\ now < b0.nextTry
             THEN /\ breakers' = SetBreaker(k, b0)
                  /\ bcalls' = [bcalls EXCEPT ![c] =
                        [arrived EXCEPT !.pc = "done",
                                        !.outcome = mkErr("open", k, b0.nextTry)]]
             ELSE IF b1.state = "half" /\ b1.halfOpenInFlight >= b1.cfg.halfOpenMax
                    THEN /\ breakers' = SetBreaker(k, b1)
                         /\ bcalls' = [bcalls EXCEPT ![c] =
                               [arrived EXCEPT !.pc = "done",
                                               !.outcome = mkErr("half-saturated", k, b1.nextTry)]]
                    ELSE /\ breakers' = SetBreaker(k, b2)
                         /\ bcalls' = [bcalls EXCEPT ![c] =
                               [arrived EXCEPT !.pc = "running",
                                               !.admitted = IF b0.state = "open" THEN "reopen"
                                                            ELSE IF b0.state = "half" THEN "half"
                                                            ELSE "closed"]]
        /\ bactions' = halfOpenActions(b0)
        /\ UNCHANGED <<notBreaker, now, streak>>

(* fn() settles: onSuccess or onFailure, then the finally block, and the    *)
(* call settles as fn() did (circuitBreaker.ts:85-94).                      *)
SettleBreaker(c, ok) ==
    LET k == bcalls[c].key
    IN  /\ bcalls[c].pc = "running"
        /\ breakers' = [breakers EXCEPT ![k] =
                           finallyBlock(IF ok THEN onSuccess(@) ELSE onFailure(@))]
        /\ bcalls' = [bcalls EXCEPT ![c].pc = "done",
                                    ![c].outcome = IF ok THEN Resolved ELSE Rejected]
        /\ streak' = [streak EXCEPT ![k] = IF ok THEN 0 ELSE @ + 1]
        /\ bactions' = IF ok THEN onSuccessActions(breakers[k])
                             ELSE onFailureActions(breakers[k])
        /\ UNCHANGED <<notBreaker, now>>

TickBreaker ==
    /\ now < StartTime + BreakerHorizon
    /\ now' = now + 1
    /\ UNCHANGED <<notBreaker, breakerVars>>

(* No breaker exists until the first call (circuitBreaker.ts:25). *)
InitBreaker ==
    /\ breakers = <<>>
    /\ bcalls = [c \in BCallIds |-> IdleBCall]
    /\ streak = [k \in BreakerKeys |-> 0]
    /\ bactions = <<>>

NextBreaker ==
    \/ \E c \in BCallIds, k \in BreakerKeys, cin \in BreakerCfgs : wrapWithBreaker(c, k, cin)
    \/ \E c \in BCallIds, ok \in BOOLEAN : SettleBreaker(c, ok)
    \/ TickBreaker

----------------------------------------------------------------------------
(* Request de-duplication: dedupe.ts (src/unnamed/part_012) *)

(* The third argument of dedupe: absent, a number, or an options object. *)
DedupeOpts ==
    { [kind |-> "absent"],
      [kind |-> "number", ttlMs |-> 0],
      [kind |-> "number", ttlMs |-> TtlMs],
      [kind |-> "options"],
      [kind |-> "options", ttlMs |-> TtlMs] }

(* normalizeOptions (part_012:119-145): the ttl.  The report settings only  *)
(* feed telemetry and are left out.                                         *)
normalizeOptions(opt) ==
    IF opt.kind = "number" THEN opt.ttlMs
    ELSE IF opt.kind = "options" /\ "ttlMs" \in DOMAIN opt THEN opt.ttlMs
    ELSE 0

(* The Entry object a fresh call creates (part_012:66-72) together with the *)
(* execution it stands for.  It is named by the call that created it.       *)
(* st: unused, scheduled (Promise.resolve().then(op) is queued), running    *)
(* (op was invoked), resolved, rejected.  state, expireAt and startedAt are *)
(* the fields of Entry; ttlMs is the closure's ttlMs; cachedAt (history)   *)
(* is when the entry became cached.                                         *)
NoEntry ==
    [st |-> "unused", key |-> "x", ttlMs |-> 0, state |-> "pending",
     expireAt |-> 0, startedAt |-> 0, cachedAt |-> 0]

(* A promise handed to a caller: the chained promise of entry `of`          *)
(* (part_012:76), or the Promise.resolve(res) that replaces it once the     *)
(* entry is cached (part_012:82).                                           *)
NoPromise == [of |-> 0, resolvedCopy |-> FALSE]

(* entry.promise as it is now *)
entryPromise(e) == [of |-> e, resolvedCopy |-> entries[e].state = "cached"]

(* What a promise has settled to: the value or the error of the execution   *)
(* behind it; every execution produces its own value and its own error.     *)
Settlement(p) ==
    IF p.of = 0 THEN [kind |-> "none", of |-> 0]
    ELSE IF entries[p.of].st = "resolved" THEN [kind |-> "value", of |-> p.of]
    ELSE IF entries[p.of].st = "rejected" THEN [kind |-> "error", of |-> p.of]
    ELSE [kind |-> "pending", of |-> p.of]

(* A call slot of dedupe: dedupe is synchronous, so a slot is idle or has   *)
(* returned its promise.  started: the call took the fresh branch, so its   *)
(* op is the one that gets invoked.  at: Date.now() of the call.            *)
IdleDCall ==
    [pc |-> "idle", key |-> "x", promise |-> NoPromise, started |-> FALSE, at |-> 0]

NextDCall(c) == dcalls[c].pc = "idle" /\ (IF c = 1 THEN TRUE ELSE dcalls[c - 1].pc # "idle")

(* inFlight.get(key): the entry, 0 for undefined *)
inFlightGet(k) == IF k \in DOMAIN inFlight THEN inFlight[k] ELSE 0

(* inFlight.set(key, entry) *)
inFlightSet(k, e) ==
    [x \in DOMAIN inFlight \cup {k} |-> IF x = k THEN e ELSE inFlight[x]]

(* inFlight.delete(key) *)
inFlightDelete(k) == [x \in DOMAIN inFlight \ {k} |-> inFlight[x]]

(* dedupeSize (part_012:113-115) *)
dedupeSize == Cardinality(DOMAIN inFlight)

(* A hit test that looks at the expiry only *)
coalescesCachedOnly(e) == entries[e].expireAt > now

(* A hit test that shares an execution only once its op has been invoked *)
coalescesAfterStart(e) ==
    \/ entries[e].state = "pending" /\ entries[e].st = "running"
    \/ entries[e].expireAt > now

(* part_012:56, for an existing entry: a coalesce or a cache hit *)
coalesces(e) == entries[e].state = "pending" \/ entries[e].expireAt > now

(* dedupe (part_012:47-104): return the existing promise, or create the     *)
(* entry, queue the op behind an async boundary and store the entry.        *)
dedupe(c, k, opt) ==
    LET ttlMs == normalizeOptions(opt)
        existing == inFlightGet(k)
        hit == IF existing = 0 THEN FALSE ELSE coalesces(existing)
        arrived == [IdleDCall EXCEPT !.pc = "returned", !.key = k, !.at = now]
    IN  /\ NextDCall(c)
        /\ IF hit
             THEN /\ dcalls' = [dcalls EXCEPT ![c] =
                        [arrived EXCEPT !.promise = entryPromise(existing)]]
                  /\ UNCHANGED <<inFlight, entries>>
             ELSE /\ entries' = [entries EXCEPT ![c] =
                        [st |-> "scheduled", key |-> k, ttlMs |-> ttlMs,
                         state |-> "pending",
                         expireAt |-> now + (IF ttlMs > 0 THEN ttlMs ELSE 0),
                         startedAt |-> now, cachedAt |-> 0]]
                  /\ inFlight' = inFlightSet(k, c)
                  /\ dcalls' = [dcalls EXCEPT ![c] =
                        [arrived EXCEPT !.promise = [of |-> c, resolvedCopy |-> FALSE],
                                        !.started = TRUE]]
        /\ rejectedKeys' = rejectedKeys \ {k}
        /\ UNCHANGED <<notDedupe, now, dtimers, cleared, clears>>

(* The microtask queued by Promise.resolve().then(op) runs: op is invoked.  *)
invokeOp(e) ==
    /\ entries[e].st = "scheduled"
    /\ entries' = [entries EXCEPT ![e].st = "running"]
    /\ UNCHANGED <<notDedupe, now, inFlight, dcalls, dtimers, cleared, clears, rejectedKeys>>

(* An expiry counted from the start of the call *)
cachedUntilFromStart(e) == entries[e].startedAt + entries[e].ttlMs

(* part_012:81: the expiry of a cached entry *)
cachedUntil(e) == now + entries[e].ttlMs

(* The then handler (part_012:77-96): op resolved.  With a ttl the entry    *)
(* object becomes cached, whether or not the map still holds it, and an     *)
(* eviction timer is set; without one the key is deleted from the map.      *)
thenHandler(e) ==
    /\ entries[e].st = "running"
    /\ IF entries[e].ttlMs > 0
         THEN /\ entries' = [entries EXCEPT ![e].st = "resolved",
                                            ![e].state = "cached",
                                            ![e].expireAt = cachedUntil(e),
                                            ![e].cachedAt = now]
              /\ dtimers' = dtimers \cup {e}
              /\ UNCHANGED inFlight
         ELSE /\ entries' = [entries EXCEPT ![e].st = "resolved"]
              /\ inFlight' = inFlightDelete(entries[e].key)
              /\ UNCHANGED dtimers
    /\ UNCHANGED <<notDedupe, now, dcalls, cleared, clears, rejectedKeys>>

(* A catch handler that leaves the entry in the map *)
onRejectedKeeps(k) == inFlight

(* part_012:99: the map after a rejection *)
onRejected(k) == inFlightDelete(k)

(* The catch handler (part_012:97-101): op rejected (or threw); the key is  *)
(* deleted and the error is thrown on.                                      *)
catchHandler(e) ==
    /\ entries[e].st = "running"
    /\ entries' = [entries EXCEPT ![e].st = "rejected"]
    /\ inFlight' = onRejected(entries[e].key)
    /\ rejectedKeys' = rejectedKeys \cup {entries[e].key}
    /\ UNCHANGED <<notDedupe, now, dcalls, dtimers, cleared, clears>>

(* Promise reactions run before any timer and before the clock moves. *)
DedupeMicrotaskPending == \E e \in DCallIds : entries[e].st = "scheduled"

(* When the eviction timer of entry e is due (part_012:85-90) *)
evictDue(e) == entries[e].cachedAt + entries[e].ttlMs + EvictSlackMs

(* The eviction timer fires (part_012:85-90), at its due time or later. *)
evict(e) ==
    LET k == entries[e].key
        cur == inFlightGet(k)
    IN  /\ e \in dtimers
        /\ ~DedupeMicrotaskPending
        /\ now >= evictDue(e)
        /\ dtimers' = dtimers \ {e}
        /\ inFlight' = IF cur = 0 THEN inFlight
                       ELSE IF entries[cur].state = "cached" /\ entries[cur].expireAt <= now
                              THEN inFlightDelete(k)
                              ELSE inFlight
        /\ UNCHANGED <<notDedupe, now, entries, dcalls, cleared, clears, rejectedKeys>>

(* The argument of clearDedupe: a key, or "" for a falsy or absent one. *)
ClearArgs == DedupeKeys \cup {""}

(* clearDedupe (part_012:107-110); a call that finds nothing to remove      *)
(* changes nothing.  cleared is history: the keys whose entry was removed   *)
(* by clearDedupe while it was pending.                                     *)
clearDedupe(key) ==
    LET gone == IF key # "" THEN {key} \cap DOMAIN inFlight ELSE DOMAIN inFlight
    IN  /\ gone # {}
        /\ clears < MaxClears
        /\ clears' = clears + 1
        /\ inFlight' = [x \in DOMAIN inFlight \ gone |-> inFlight[x]]
        /\ cleared' = cleared \cup {k \in gone : entries[inFlight[k]].state = "pending"}
        /\ UNCHANGED <<notDedupe, now, entries, dcalls, dtimers, rejectedKeys>>

TickDedupe ==
    /\ now + TickMs <= StartTime + DedupeHorizon * TickMs
    /\ ~DedupeMicrotaskPending
    /\ now' = now + TickMs
    /\ UNCHANGED <<notDedupe, dedupeVars>>

(* The map starts empty (part_012:16). *)
InitDedupe ==
    /\ inFlight = <<>>
    /\ entries = [e \in DCallIds |-> NoEntry]
    /\ dcalls = [c \in DCallIds |-> IdleDCall]
    /\ dtimers = {}
    /\ cleared = {}
    /\ clears = 0
    /\ rejectedKeys = {}

NextDedupe ==
    \/ \E c \in DCallIds, k \in DedupeKeys, opt \in DedupeOpts : dedupe(c, k, opt)
    \/ \E e \in DCallIds : invokeOp(e)
    \/ \E e \in DCallIds : thenHandler(e)
    \/ \E e \in DCallIds : catchHandler(e)
    \/ \E e \in DCallIds : evict(e)
    \/ TickDedupe

NextDedupeClear ==
    \/ NextDedupe
    \/ \E key \in ClearArgs : clearDedupe(key)

----------------------------------------------------------------------------
(* Retry with backoff: retry.ts (src/unnamed/part_010) *)

(* The shouldRetry predicates that are tried: the default (retry all), one  *)
(* that never retries, and one that allows a single retry (attempt < 1).    *)
ShouldRetryKinds == {"always", "never", "firstOnly"}

shouldRetry(kind, attempt) ==
    IF kind = "always" THEN TRUE
    ELSE IF kind = "never" THEN FALSE
    ELSE attempt < 1

(* DEFAULTS merged with the caller's cfg (part_010:24-32, 66-69) *)
RetryConfigs ==
    [retries : 0..MaxRetries, baseMs : 1..MaxBaseMs, maxMs : {RetryMaxMs},
     factor : {BackoffFactor}, jitter : BOOLEAN, shouldRetry : ShouldRetryKinds]

RECURSIVE pow(_, _)
pow(b, n) == IF n = 0 THEN 1 ELSE b * pow(b, n - 1)

min2(a, b) == IF a < b THEN a ELSE b
max2(a, b) == IF a > b THEN a ELSE b

(* computeDelay (part_010:109-123): the delays it can return.  With jitter, *)
(* rand = floor(Math.random() * base) ranges over 0..base-1 and is added or *)
(* subtracted.                                                              *)
computeDelay(base, factor, attempt, max, jitter) ==
    LET delay == min2(base * pow(factor, attempt), max)
    IN  IF jitter
          THEN {max2(0, delay - rand) : rand \in 0..(base - 1)}
                 \cup {max2(0, delay + rand) : rand \in 0..(base - 1)}
          ELSE {delay}

(* What a retry call has settled to.  Every invocation of op produces its   *)
(* own value or its own error, named by the number of the invocation.       *)
RetryPending == [kind |-> "none", of |-> 0]

(* The frame of the retry call.  pc: idle, op (awaiting op(), part_010:90), *)
(* sleep (awaiting sleep(delay), part_010:100), done.  invocations and      *)
(* delays are history: how often op was invoked and the delays waited.      *)
IdleRetry ==
    [pc |-> "idle",
     cfg |-> [retries |-> 0, baseMs |-> 1, maxMs |-> RetryMaxMs,
              factor |-> BackoffFactor, jitter |-> FALSE, shouldRetry |-> "always"],
     attempt |-> 0, lastErr |-> 0, invocations |-> 0, delays |-> <<>>,
     outcome |-> RetryPending]

(* retry (part_010:61-90) up to its first await: attempt 0 invokes op. *)
retry(rc) ==
    /\ rcall.pc = "idle"
    /\ rcall' = [rcall EXCEPT !.pc = "op", !.cfg = rc, !.invocations = 1]
    /\ UNCHANGED <<notRetry>>

(* A catch block that gives up one attempt early *)
givesUpEarly(r) ==
    r.attempt + 1 >= r.cfg.retries \/ ~shouldRetry(r.cfg.shouldRetry, r.attempt)

(* A catch block that does not ask the predicate *)
givesUpOnCountOnly(r) == r.attempt >= r.cfg.retries

(* part_010:93: the catch block gives up *)
givesUp(r) ==
    r.attempt >= r.cfg.retries \/ ~shouldRetry(r.cfg.shouldRetry, r.attempt)

(* A return that hands back the value of the first invocation *)
returnsFirst(r) == [kind |-> "value", of |-> 1]

(* part_010:90: return await op() *)
returnsValue(r) == [kind |-> "value", of |-> r.invocations]

(* op() settles (part_010:90-100): the value is returned, or the catch      *)
(* block rethrows the error or starts the backoff sleep.                    *)
opSettles(ok) ==
    /\ rcall.pc = "op"
    /\ IF ok
         THEN rcall' = [rcall EXCEPT !.pc = "done", !.outcome = returnsValue(rcall)]
         ELSE LET r == [rcall EXCEPT !.lastErr = rcall.invocations]
              IN  IF givesUp(r)
                    THEN rcall' = [r EXCEPT !.pc = "done",
                                            !.outcome = [kind |-> "error", of |-> r.lastErr]]
                    ELSE \E delay \in computeDelay(r.cfg.baseMs, r.cfg.factor, r.attempt,
                                                   r.cfg.maxMs, r.cfg.jitter) :
                            rcall' = [r EXCEPT !.pc = "sleep", !.delays = Append(@, delay)]
    /\ UNCHANGED <<notRetry>>

(* The sleep timer fires (part_010:100-101, 85-90, 106): attempt++, then    *)
(* the loop invokes op once more, or ends and lastErr is thrown.            *)
wake ==
    /\ rcall.pc = "sleep"
    /\ IF rcall.attempt + 1 <= rcall.cfg.retries
         THEN rcall' = [rcall EXCEPT !.pc = "op", !.attempt = @ + 1, !.invocations = @ + 1]
         ELSE rcall' = [rcall EXCEPT !.pc = "done", !.attempt = @ + 1,
                                     !.outcome = [kind |-> "error", of |-> rcall.lastErr]]
    /\ UNCHANGED <<notRetry>>

InitRetry == rcall = IdleRetry

NextRetry ==
    \/ \E rc \in RetryConfigs : retry(rc)
    \/ \E ok \in BOOLEAN : opSettles(ok)
    \/ wake

(* op settles and timers fire *)
FairRetry == WF_vars(\E ok \in BOOLEAN : opSettles(ok)) /\ WF_vars(wake)

----------------------------------------------------------------------------
(* Telemetry dispatch core: src/src/datadog.ts *)

(* A sampleRate argument: absent, or a number. *)
SampleRateArgs ==
    {[given |-> FALSE, value |-> 0]}
      \cup {[given |-> TRUE, value |-> v] : v \in {0, HalfPct, FullPct + HalfPct}}

(* clampPct (datadog.ts:241-244) on the numbers tried: Math.round leaves an *)
(* integer as it is.                                                        *)
clampPct(n) == max2(0, min2(FullPct, n))

(* passSample (datadog.ts:237-239): Math.random() * 100 < clampPct(pct),    *)
(* with Math.random() in [0, 1): the outcomes that are possible.            *)
passSample(pct) ==
    IF clampPct(pct) = 0 THEN {FALSE}
    ELSE IF clampPct(pct) = FullPct THEN {TRUE}
    ELSE BOOLEAN

(* sampleRate ?? fallback *)
orDefault(arg, fallback) == IF arg.given THEN arg.value ELSE fallback

(* The last addAction/addError call (history): its number, what it was,     *)
(* whether it passed the sampling gate and whether it threw to its caller.  *)
NoDispatch == [ev |-> 0, kind |-> "action", passed |-> FALSE, threw |-> FALSE]

(* A gate that forgets the kill switch *)
gatesOpenNoFlag(passed) == isInitialized /\ passed

(* datadog.ts:194-195 and 218-219: initialized, sampled in, telemetry on *)
gatesOpen(passed) == isInitialized /\ passed /\ telemetryEnabled

(* A catch block that lets the error out *)
rethrows(thrown) == thrown

(* datadog.ts:208-210 and 232-234: the catch block swallows *)
swallows(thrown) == FALSE

(* datadog.ts:205-210 and 229-234: the routing inside the try block.  The   *)
(* result is the list of hooks called, each with whether it threw.  Without *)
(* a navigator global, `navigator.onLine` throws before anything is called. *)
route(ev, kind, calleeThrows) ==
    IF navigator = "absent" THEN <<>>
    ELSE IF navigator = "offline" /\ enqueueHook
      THEN <<[ev |-> ev, kind |-> kind, to |-> "enqueue", threw |-> calleeThrows]>>
    ELSE IF senders[kind]
      THEN <<[ev |-> ev, kind |-> kind, to |-> "sender", threw |-> calleeThrows]>>
    ELSE <<>>

(* Whether the try block threw: the ReferenceError, or the callee's error *)
bodyThrew(kind, calleeThrows) ==
    \/ navigator = "absent"
    \/ /\ calleeThrows
       /\ \/ navigator = "offline" /\ enqueueHook
          \/ senders[kind]

(* safeAddAction (datadog.ts:189-211) and the body of addError              *)
(* (datadog.ts:213-235), which differ only in the hooks they look up.       *)
dispatch(ev, kind, passed, calleeThrows) ==
    /\ dlog' = IF gatesOpen(passed) THEN dlog \o route(ev, kind, calleeThrows) ELSE dlog
    /\ dlast' = [ev |-> ev, kind |-> kind, passed |-> passed,
                 threw |-> IF gatesOpen(passed)
                             THEN swallows(bodyThrew(kind, calleeThrows))
                             ELSE FALSE]

(* addAction (datadog.ts:144-150) *)
addAction(sampleRate, calleeThrows) ==
    /\ dlast.ev < MaxDispatches
    /\ \E passed \in passSample(orDefault(sampleRate, sampleRates.action)) :
          dispatch(dlast.ev + 1, "action", passed, calleeThrows)
    /\ UNCHANGED <<notDispatch, navigator, isInitialized, telemetryEnabled, senders,
                   enqueueHook, sampleRates>>

(* addError (datadog.ts:213-235) *)
addError(sampleRate, calleeThrows) ==
    /\ dlast.ev < MaxDispatches
    /\ \E passed \in passSample(orDefault(sampleRate, sampleRates.error)) :
          dispatch(dlast.ev + 1, "error", passed, calleeThrows)
    /\ UNCHANGED <<notDispatch, navigator, isInitialized, telemetryEnabled, senders,
                   enqueueHook, sampleRates>>

(* initDatadog (datadog.ts:60-139), when datadogRum.init does not throw.    *)
(* Without a window the senders are wired (66-75); in a browser they are    *)
(* not, and the breadcrumb goes through safeAddAction as event 0 (128-138). *)
initDatadog(base, calleeThrows) ==
    /\ ~isInitialized
    /\ isInitialized' = TRUE
    /\ sampleRates' = [action |-> clampPct(orDefault(base.actionSampleRate, FullPct)),
                       error |-> clampPct(orDefault(base.errorSampleRate, FullPct))]
    /\ IF ~hasWindow
         THEN /\ senders' = [action |-> TRUE, error |-> TRUE]
              /\ UNCHANGED dlog
         ELSE /\ UNCHANGED senders
              /\ dlog' = IF telemetryEnabled
                           THEN dlog \o route(0, "action", calleeThrows)
                           ELSE dlog
    /\ UNCHANGED <<notDispatch, navigator, telemetryEnabled, enqueueHook, dlast>>

(* setTelemetryEnabled (datadog.ts:50-52, flags.ts:18-21) *)
setTelemetryEnabled(enabled) ==
    /\ telemetryEnabled # enabled
    /\ telemetryEnabled' = enabled
    /\ UNCHANGED <<notDispatch, navigator, isInitialized, senders, enqueueHook,
                   sampleRates, dlog, dlast>>

(* The host page wires the real senders, as the tests do                    *)
(* (offlineQueue.persistent.test.ts:32-36).                                 *)
wireSenders ==
    /\ senders # [action |-> TRUE, error |-> TRUE]
    /\ senders' = [action |-> TRUE, error |-> TRUE]
    /\ UNCHANGED <<notDispatch, navigator, isInitialized, telemetryEnabled, enqueueHook,
                   sampleRates, dlog, dlast>>

(* An offline queue registers or removes the enqueue hooks                  *)
(* (offlineQueue.persistent.ts:96-97 and 119-120).                          *)
setEnqueueHooks(registered) ==
    /\ hasWindow
    /\ enqueueHook # registered
    /\ enqueueHook' = registered
    /\ UNCHANGED <<notDispatch, navigator, isInitialized, telemetryEnabled, senders,
                   sampleRates, dlog, dlast>>

(* The browser goes offline or online: navigator.onLine changes. *)
setOnLine(v) ==
    /\ hasWindow
    /\ navigator # v
    /\ navigator' = v
    /\ UNCHANGED <<notDispatch, isInitialized, telemetryEnabled, senders, enqueueHook,
                   sampleRates, dlog, dlast>>

(* datadog.ts:45-47 and flags.ts:6-9 *)
InitDispatch ==
    /\ isInitialized = FALSE
    /\ telemetryEnabled = TRUE
    /\ senders = [action |-> FALSE, error |-> FALSE]
    /\ enqueueHook = FALSE
    /\ sampleRates = [action |-> FullPct, error |-> FullPct]
    /\ dlog = <<>>
    /\ dlast = NoDispatch

(* The environment: a browser (online or offline), or a server without a    *)
(* window, where navigator is missing or has no onLine (a falsy value).     *)
InitEnv ==
    \/ hasWindow = TRUE /\ navigator \in {"online", "offline"}
    \/ hasWindow = FALSE /\ navigator \in {"absent", "offline"}

BaseInits == [actionSampleRate : SampleRateArgs, errorSampleRate : SampleRateArgs]

NextDispatch ==
    \/ \E base \in BaseInits, t \in BOOLEAN : initDatadog(base, t)
    \/ \E sr \in SampleRateArgs, t \in BOOLEAN : addAction(sr, t)
    \/ \E sr \in SampleRateArgs, t \in BOOLEAN : addError(sr, t)
    \/ \E v \in BOOLEAN : setTelemetryEnabled(v)
    \/ wireSenders
    \/ \E v \in BOOLEAN : setEnqueueHooks(v)
    \/ \E v \in {"online", "offline"} : setOnLine(v)

----------------------------------------------------------------------------
(* In-memory offline queue: offlineQueue.ts (src/unnamed/part_013) *)

(* The maxBufferedEvents argument: absent, or 0..MaxBufferedBound. *)
MaxBufferedArgs ==
    {[given |-> FALSE, value |-> 0]}
      \cup {[given |-> TRUE, value |-> m] : m \in 0..MaxBufferedBound}

EventTypes == {"action", "error"}

(* enqueue (part_013:72-77); queue.shift() on an empty queue does nothing. *)
enqueue(ev) ==
    LET kept == IF Len(queue) >= maxBuffered /\ queue # <<>> THEN Tail(queue) ELSE queue
    IN  Append(kept, ev)

(* installTelemetryQueue (part_013:24-60); a second install returns at once. *)
installTelemetryQueue(maxBufferedEvents) ==
    /\ hasWindow
    /\ ~installed
    /\ installed' = TRUE
    /\ maxBuffered' = orDefault(maxBufferedEvents, DefaultMaxBuffered)
    /\ UNCHANGED <<notMemQueue, navigator, queue, realLog, offlineSince, submitted>>

(* uninstall (part_013:63-70) *)
uninstall ==
    /\ installed
    /\ installed' = FALSE
    /\ queue' = <<>>
    /\ offlineSince' = <<>>
    /\ UNCHANGED <<notMemQueue, navigator, maxBuffered, realLog, submitted>>

(* The wrappers installed as globalThis.addAction and globalThis.addError   *)
(* (part_013:33-55): pass through when online, enqueue otherwise.           *)
globalAddEvent(type) ==
    LET ev == [id |-> submitted + 1, type |-> type]
    IN  /\ installed
        /\ submitted < MaxMemEvents
        /\ submitted' = submitted + 1
        /\ IF navigator = "online"
             THEN /\ realLog' = Append(realLog, ev)
                  /\ UNCHANGED <<queue, offlineSince>>
             ELSE /\ queue' = enqueue(ev)
                  /\ offlineSince' = Append(offlineSince, ev)
                  /\ UNCHANGED realLog
        /\ UNCHANGED <<notMemQueue, navigator, installed, maxBuffered>>

(* flushQueue (part_013:79-91), the listener of the window's online event:  *)
(* the buffered events go to the real addAction/addError in order.          *)
flushQueue ==
    /\ installed
    /\ navigator = "online" /\ queue # <<>>
    /\ realLog' = realLog \o queue
    /\ queue' = <<>>
    /\ offlineSince' = <<>>
    /\ UNCHANGED <<notMemQueue, navigator, installed, maxBuffered, submitted>>

(* part_013:15-17 *)
InitMemQueue ==
    /\ queue = <<>>
    /\ maxBuffered = DefaultMaxBuffered
    /\ installed = FALSE
    /\ realLog = <<>>
    /\ offlineSince = <<>>
    /\ submitted = 0

NextMemQueue ==
    \/ \E m \in MaxBufferedArgs : installTelemetryQueue(m)
    \/ uninstall
    \/ \E type \in EventTypes : globalAddEvent(type)
    \/ flushQueue
    \/ \E v \in {"online", "offline"} : setOnLine(v)

----------------------------------------------------------------------------
(* Persistent offline queue: telemetry/offlineQueue.persistent.ts *)

(* offlineQueue.persistent.ts:29-35 (storageKey is fixed in this model) *)
DEFAULTS ==
    [maxBuffered |-> DefaultPersistentMaxBuffered, byteCap |-> DefaultByteCap,
     flushOnInit |-> TRUE, writeDebounceMs |-> DefaultWriteDebounceMs]

(* An option of installPersistentTelemetryQueue, absent or given *)
Absent == [given |-> FALSE, value |-> 0]
Given(v) == [given |-> TRUE, value |-> v]

(* The options objects installPersistentTelemetryQueue is called with: {},  *)
(* { maxBuffered, flushOnInit: false, writeDebounceMs } and                 *)
(* { byteCap, writeDebounceMs }.                                            *)
PersistentQueueOptions ==
    {[maxBuffered |-> Absent, byteCap |-> Absent, flushOnInit |-> Absent,
      writeDebounceMs |-> Absent],
     [maxBuffered |-> Given(PersistMaxBufferedBound), byteCap |-> Absent,
      flushOnInit |-> Given(FALSE), writeDebounceMs |-> Given(WriteDebounceBound)],
     [maxBuffered |-> Absent, byteCap |-> Given(ByteCapBound), flushOnInit |-> Absent,
      writeDebounceMs |-> Given(WriteDebounceBound)]}

(* { ...DEFAULTS, ...opts } (offlineQueue.persistent.ts:89) *)
mergeOptions(opts) ==
    [maxBuffered |-> orDefault(opts.maxBuffered, DEFAULTS.maxBuffered),
     byteCap |-> orDefault(opts.byteCap, DEFAULTS.byteCap),
     flushOnInit |-> orDefault(opts.flushOnInit, DEFAULTS.flushOnInit),
     writeDebounceMs |-> orDefault(opts.writeDebounceMs, DEFAULTS.writeDebounceMs)]

(* A queued event: its tag t ("a" action, "e" error) and, standing for its  *)
(* payload, the position id at which it was handed over.                    *)
QueuedEvent(id, t) == [id |-> id, t |-> t]

(* What an earlier session left under the storage key: k events.            *)
StoredEvents(k) == [i \in 1..k |-> QueuedEvent(i, IF i % 2 = 1 THEN "a" ELSE "e")]

(* An array item that is not a queued event *)
ForeignItem == [id |-> 0, t |-> "x"]

NoItem == [kind |-> "absent", items |-> <<>>]
NotAnArray == [kind |-> "other", items |-> <<>>]
StoredList(events) == [kind |-> "list", items |-> events]

(* The values the storage key can hold before the first install. *)
InitialStorage ==
    {NoItem, NotAnArray, StoredList(<<ForeignItem>> \o StoredEvents(1))}
      \cup {StoredList(StoredEvents(k)) : k \in 0..MaxStored}

(* A load that returns the stored events newest first *)
readLSNewestFirst(item) ==
    LET kept == IF item.kind # "list" THEN <<>>
                ELSE SelectSeq(item.items, LAMBDA v : v.t \in {"a", "e"})
    IN  [i \in 1..Len(kept) |-> kept[Len(kept) + 1 - i]]

(* readLS (offlineQueue.persistent.ts:212-223) *)
readLS(item) ==
    IF item.kind # "list" THEN <<>>
    ELSE SelectSeq(item.items, LAMBDA v : v.t \in {"a", "e"})

(* JSON.stringify(events).length: the brackets, the events, the commas. *)
stringifyLength(events) ==
    IF events = <<>> THEN 2 ELSE 2 + Len(events) * EventBytes + (Len(events) - 1)

(* localStorage.setItem throws when the value does not fit. *)
setItemThrows(events) == stringifyLength(events) > quota

(* A splice that would cut the newest events instead *)
dropNewest(events, n) == SubSeq(events, 1, Len(events) - min2(n, Len(events)))

(* events.splice(0, n) *)
dropOldest(events, n) == SubSeq(events, min2(n, Len(events)) + 1, Len(events))

(* A drop that would round 20% down *)
aggressiveDropFloor(events) == Len(events) \div 5

(* Math.ceil(events.length * 0.2) (offlineQueue.persistent.ts:231) *)
aggressiveDrop(events) == (Len(events) + 4) \div 5

(* writeLS (offlineQueue.persistent.ts:225-239): the array is trimmed in    *)
(* place, so the result carries the queue as well as the stored item.       *)
writeLS(events) ==
    IF ~setItemThrows(events)
      THEN [events |-> events, item |-> StoredList(events), attempts |-> 1, wrote |-> TRUE]
    ELSE IF events = <<>>
      THEN [events |-> events, item |-> storage, attempts |-> 1, wrote |-> FALSE]
    ELSE LET fewer == dropOldest(events, aggressiveDrop(events))
         IN  IF ~setItemThrows(fewer)
               THEN [events |-> fewer, item |-> StoredList(fewer), attempts |-> 2,
                     wrote |-> TRUE]
               ELSE [events |-> fewer, item |-> storage, attempts |-> 2, wrote |-> FALSE]

(* shrinkToByteCap (offlineQueue.persistent.ts:241-255); JSON.stringify     *)
(* throws for a payload that cannot be serialized and the queue is cleared. *)
RECURSIVE dropToByteCap(_, _)
dropToByteCap(events, byteCap) ==
    IF events # <<>> /\ stringifyLength(events) > byteCap
      THEN dropToByteCap(dropOldest(events, max2(1, Len(events) \div 10)), byteCap)
      ELSE events

shrinkToByteCap(events, serializable) ==
    IF serializable THEN dropToByteCap(events, pcfg.byteCap) ELSE <<>>

(* The count cap of push (offlineQueue.persistent.ts:168-170) *)
trimToMaxBuffered(events) ==
    IF Len(events) > pcfg.maxBuffered
      THEN dropOldest(events, Len(events) - pcfg.maxBuffered)
      ELSE events

NoTimer == [armed |-> FALSE, at |-> 0]

NoFlush ==
    [ran |-> FALSE, onInit |-> FALSE, sent |-> <<>>, failAt |-> 0, attempts |-> 0,
     wrote |-> FALSE, direct |-> 0]

(* scheduleWrite (offlineQueue.persistent.ts:176-182) *)
scheduleWrite ==
    IF writeTimer.armed THEN writeTimer
    ELSE [armed |-> TRUE, at |-> now + pcfg.writeDebounceMs]

(* push (offlineQueue.persistent.ts:164-174) *)
push(ev, serializable) ==
    /\ q' = shrinkToByteCap(trimToMaxBuffered(Append(q, ev)), serializable)
    /\ writeTimer' = scheduleWrite

senderOf(t) == IF t = "a" THEN "action" ELSE "error"

(* enqueueAction / enqueueError (offlineQueue.persistent.ts:132-162): sent  *)
(* at once when online with the sender wired, queued otherwise.  direct     *)
(* (history) is the id of the event that went straight to the sender.       *)
enqueueEvent(t, serializable) ==
    /\ pinstalled
    /\ handed < MaxPEvents
    /\ handed' = handed + 1
    /\ IF navigator = "online" /\ senders[senderOf(t)]
         THEN /\ pflush' = [NoFlush EXCEPT !.direct = MaxStored + handed + 1]
              /\ UNCHANGED <<q, writeTimer>>
         ELSE /\ pflush' = NoFlush
              /\ push(QueuedEvent(MaxStored + handed + 1, t), serializable)
    /\ UNCHANGED <<notPersist, now, navigator, senders, enqueueHook, pcfg, pinstalled,
                   storage, quota>>

enqueueAction(serializable) == enqueueEvent("a", serializable)

enqueueError(serializable) == enqueueEvent("e", serializable)

(* The debounced write (offlineQueue.persistent.ts:178-181) *)
writeTimerFires ==
    /\ writeTimer.armed
    /\ now >= writeTimer.at
    /\ writeTimer' = NoTimer
    /\ q' = writeLS(q).events
    /\ storage' = writeLS(q).item
    /\ pflush' = [NoFlush EXCEPT !.attempts = writeLS(q).attempts,
                                 !.wrote = writeLS(q).wrote]
    /\ UNCHANGED <<notPersist, now, navigator, senders, enqueueHook, pcfg, pinstalled,
                   quota, handed>>

(* tryFlush passes its early returns (offlineQueue.persistent.ts:187-190) *)
flushRuns(events) ==
    /\ navigator = "online"
    /\ events # <<>>
    /\ senders.action /\ senders.error

(* A flush that goes on after the throwing send *)
sentCountPastFailure(events, failAt) ==
    IF failAt \in 1..Len(events) THEN failAt ELSE Len(events)

(* The number of events a flush sends when the send numbered failAt throws  *)
(* (none throws when failAt is 0): the loop breaks at the first throw.      *)
sentCount(events, failAt) == IF failAt \in 1..Len(events) THEN failAt - 1 ELSE Len(events)

(* tryFlush (offlineQueue.persistent.ts:186-208) on a queue that passes the *)
(* early returns.                                                           *)
tryFlush(events, failAt, onInit) ==
    LET n == sentCount(events, failAt)
        w == writeLS(dropOldest(events, n))
    IN  /\ failAt <= Len(events)
        /\ q' = w.events
        /\ storage' = w.item
        /\ pflush' = [ran |-> TRUE, onInit |-> onInit, sent |-> SubSeq(events, 1, n),
                      failAt |-> failAt,
                      attempts |-> w.attempts, wrote |-> w.wrote, direct |-> 0]

FailAts == 0..(MaxStored + MaxPEvents)

(* installPersistentTelemetryQueue (offlineQueue.persistent.ts:84-108) *)
installPersistentTelemetryQueue(opts, failAt) ==
    /\ hasWindow
    /\ ~pinstalled
    /\ pinstalled' = TRUE
    /\ pcfg' = mergeOptions(opts)
    /\ enqueueHook' = TRUE
    /\ IF mergeOptions(opts).flushOnInit /\ flushRuns(readLS(storage))
         THEN tryFlush(readLS(storage), failAt, TRUE)
         ELSE /\ q' = readLS(storage)
              /\ failAt = 0
              /\ pflush' = NoFlush
              /\ UNCHANGED storage
    /\ UNCHANGED <<notPersist, now, navigator, senders, writeTimer, quota, handed>>

(* uninstall (offlineQueue.persistent.ts:115-123): the queue and a pending  *)
(* write timer stay.                                                        *)
uninstallPersistent ==
    /\ pinstalled
    /\ pinstalled' = FALSE
    /\ enqueueHook' = FALSE
    /\ pflush' = NoFlush
    /\ UNCHANGED <<notPersist, now, navigator, senders, pcfg, q, writeTimer, storage,
                   quota, handed>>

(* The window's online event (listener of offlineQueue.persistent.ts:100) *)
onlineEvent(failAt) ==
    /\ pinstalled
    /\ flushRuns(q)
    /\ tryFlush(q, failAt, FALSE)
    /\ UNCHANGED <<notPersist, now, navigator, senders, enqueueHook, pcfg, pinstalled,
                   writeTimer, quota, handed>>

(* onVisChange (offlineQueue.persistent.ts:125-128) *)
onVisChange(visibilityState, failAt) ==
    /\ pinstalled
    /\ visibilityState = "visible"
    /\ flushRuns(q)
    /\ tryFlush(q, failAt, FALSE)
    /\ UNCHANGED <<notPersist, now, navigator, senders, enqueueHook, pcfg, pinstalled,
                   writeTimer, quota, handed>>

(* The page is reloaded: the module state and the globals start afresh, the *)
(* storage item stays.                                                      *)
reload ==
    /\ pinstalled \/ q # <<>> \/ writeTimer.armed \/ senders.action \/ senders.error
    /\ pinstalled' = FALSE
    /\ pcfg' = DEFAULTS
    /\ q' = <<>>
    /\ writeTimer' = NoTimer
    /\ pflush' = NoFlush
    /\ enqueueHook' = FALSE
    /\ senders' = [action |-> FALSE, error |-> FALSE]
    /\ UNCHANGED <<notPersist, now, navigator, storage, quota, handed>>

(* One of the two senders is wired (globalThis.__DD_SEND_ACTION__ or        *)
(* __DD_SEND_ERROR__, read at offlineQueue.persistent.ts:54-60).            *)
wireSender(kind) ==
    /\ ~senders[kind]
    /\ senders' = [senders EXCEPT ![kind] = TRUE]
    /\ UNCHANGED <<notPersist, now, navigator, enqueueHook, persistVars>>

(* Time passes while the write timer is pending; a due timer fires before   *)
(* the clock moves on.                                                      *)
TickPersist ==
    /\ now < StartTime + PersistHorizon
    /\ writeTimer.armed /\ writeTimer.at > now
    /\ now' = now + 1
    /\ UNCHANGED <<notPersist, navigator, senders, enqueueHook, persistVars>>

(* The room the storage has for the item: little, or plenty. *)
Quotas == {QuotaBound, DefaultByteCap}

(* offlineQueue.persistent.ts:37-40; cfg is read only after an install *)
InitPersist ==
    /\ pcfg = DEFAULTS
    /\ q = <<>>
    /\ pinstalled = FALSE
    /\ writeTimer = NoTimer
    /\ storage = NoItem
    /\ quota = DefaultByteCap
    /\ pflush = NoFlush
    /\ handed = 0

(* The queue's module state as constructed, over any storage item. *)
InitPersistOver ==
    /\ pcfg = DEFAULTS
    /\ q = <<>>
    /\ pinstalled = FALSE
    /\ writeTimer = NoTimer
    /\ storage \in InitialStorage
    /\ quota \in Quotas
    /\ pflush = NoFlush
    /\ handed = 0

NextPersist ==
    \/ \E opts \in PersistentQueueOptions, failAt \in FailAts :
          installPersistentTelemetryQueue(opts, failAt)
    \/ uninstallPersistent
    \/ \E serializable \in BOOLEAN : enqueueAction(serializable)
    \/ \E serializable \in BOOLEAN : enqueueError(serializable)
    \/ writeTimerFires
    \/ \E failAt \in FailAts : onlineEvent(failAt)
    \/ \E v \in {"visible", "hidden"}, failAt \in FailAts : onVisChange(v, failAt)
    \/ reload
    \/ \E kind \in {"action", "error"} : wireSender(kind)
    \/ \E v \in {"online", "offline"} : setOnLine(v)
    \/ TickPersist

----------------------------------------------------------------------------
(* Flow timer: src/src/ux/flowTimer.ts *)

(* The startFlow calls that are made *)
FlowSlots == 1..MaxFlows

(* genId (flowTimer.ts:128-130): eight characters of Math.random(), which  *)
(* can come out the same for two flows.                                    *)
FlowIds == {"id1", "id2"}

(* A FlowInstance (flowTimer.ts:45-50); started says whether startFlow ran *)
NoInstance == [started |-> FALSE, id |-> "", ended |-> FALSE]

TerminalActions == {"flow_end", "flow_fail", "flow_cancel"}

(* activeFlows.delete(id) *)
mapDelete(m, id) == [x \in DOMAIN m \ {id} |-> m[x]]

(* activeFlows.set(id, inst) *)
mapSet(m, id, f) == [x \in DOMAIN m \cup {id} |-> IF x = id THEN f ELSE m[x]]

(* startFlow (flowTimer.ts:43-55) *)
startFlow(f, id) ==
    /\ ~insts[f].started
    /\ IF f = 1 THEN TRUE ELSE insts[f - 1].started
    /\ insts' = [insts EXCEPT ![f] = [started |-> TRUE, id |-> id, ended |-> FALSE]]
    /\ activeFlows' = mapSet(activeFlows, id, f)
    /\ flowActions' = [flowActions EXCEPT ![f] = <<"flow_start">>]
    /\ UNCHANGED notFlow

(* end() and fail() of the object startFlow returned (flowTimer.ts:64-75   *)
(* and 85-97): nothing when inst.ended, else the flag, the delete and the  *)
(* telemetry calls.                                                        *)
settleFlow(f, sent) ==
    /\ insts[f].started
    /\ IF insts[f].ended
         THEN UNCHANGED flowVars
         ELSE /\ insts' = [insts EXCEPT ![f].ended = TRUE]
              /\ activeFlows' = mapDelete(activeFlows, insts[f].id)
              /\ flowActions' = [flowActions EXCEPT ![f] = @ \o sent]
    /\ UNCHANGED notFlow

end(f) == settleFlow(f, <<"flow_end">>)

fail(f) == settleFlow(f, <<"flow_fail", "addError">>)

(* cancelAllFlows (flowTimer.ts:110-123): every entry of the map is        *)
(* deleted and flow_cancel is sent for those whose instance has not ended; *)
(* the instances themselves are left as they are.                          *)
cancelAllFlows ==
    /\ DOMAIN activeFlows # {}
    /\ activeFlows' = <<>>
    /\ flowActions' =
          [f \in FlowSlots |->
              IF \E id \in DOMAIN activeFlows : activeFlows[id] = f /\ ~insts[f].ended
                THEN Append(flowActions[f], "flow_cancel")
                ELSE flowActions[f]]
    /\ UNCHANGED <<notFlow, insts>>

(* flowTimer.ts:24: no flow has been started *)
InitFlow ==
    /\ insts = [f \in FlowSlots |-> NoInstance]
    /\ activeFlows = <<>>
    /\ flowActions = [f \in FlowSlots |-> <<>>]

NextFlow ==
    \/ \E f \in FlowSlots, id \in FlowIds : startFlow(f, id)
    \/ \E f \in FlowSlots : end(f)
    \/ \E f \in FlowSlots : fail(f)
    \/ cancelAllFlows

----------------------------------------------------------------------------
(* The specifications: one component runs, the others stay as constructed. *)

(* The guard as it is while the breaker runs: the first configuration, no call. *)
GuardAtRest ==
    /\ guardEnabled = TRUE
    /\ cfg = ApiRateGuard(CHOOSE x \in Configs :
                 x.maxRequests = 1 /\ x.blockDurationMs = 0
                   /\ x.countOnFailure /\ x.overflowStrategy = "block")
    /\ buckets = <<>>
    /\ timers = {}
    /\ calls = [c \in CallIds |-> IdleCall]
    /\ flagChanges = 0

(* The components that are not part of a run, as constructed *)
BrowserOnline == hasWindow = TRUE /\ navigator = "online"

OthersAtRest ==
    InitRetry /\ BrowserOnline /\ InitDispatch /\ InitMemQueue /\ InitPersist /\ InitFlow

InitBlock == InitGuard("block") /\ InitBreaker /\ InitDedupe /\ OthersAtRest
InitDrop == InitGuard("drop") /\ InitBreaker /\ InitDedupe /\ OthersAtRest
InitBlockDrop == InitBlock \/ InitDrop
InitQueue == InitGuard("queue") /\ InitBreaker /\ InitDedupe /\ OthersAtRest
InitBreakerRun ==
    now = StartTime /\ GuardAtRest /\ InitBreaker /\ InitDedupe /\ OthersAtRest
InitDedupeRun ==
    now = StartTime /\ GuardAtRest /\ InitBreaker /\ InitDedupe /\ OthersAtRest
InitRetryRun ==
    now = StartTime /\ GuardAtRest /\ InitBreaker /\ InitDedupe /\ OthersAtRest
InitDispatchRun ==
    /\ now = StartTime /\ GuardAtRest /\ InitBreaker /\ InitDedupe /\ InitRetry
    /\ InitEnv /\ InitDispatch /\ InitMemQueue /\ InitPersist /\ InitFlow
InitMemQueueRun ==
    /\ now = StartTime /\ GuardAtRest /\ InitBreaker /\ InitDedupe /\ InitRetry
    /\ hasWindow = TRUE /\ navigator \in {"online", "offline"}
    /\ InitDispatch /\ InitMemQueue /\ InitPersist /\ InitFlow
InitPersistRun ==
    /\ now = StartTime /\ GuardAtRest /\ InitBreaker /\ InitDedupe /\ InitRetry
    /\ hasWindow = TRUE /\ navigator \in {"online", "offline"}
    /\ InitDispatch /\ InitMemQueue /\ InitPersistOver /\ InitFlow
InitFlowRun ==
    now = StartTime /\ GuardAtRest /\ InitBreaker /\ InitDedupe /\ OthersAtRest

SpecBlock == InitBlock /\ [][NextGuard]_vars
SpecDrop == InitDrop /\ [][NextGuard]_vars
SpecQueue == InitQueue /\ [][NextQueue]_vars
SpecBlockDrop == InitBlockDrop /\ [][NextGuard]_vars
SpecQueueReset == InitQueue /\ [][NextQueueReset]_vars /\ FairQueue
SpecBreaker == InitBreakerRun /\ [][NextBreaker]_vars
SpecDedupe == InitDedupeRun /\ [][NextDedupe]_vars
SpecDedupeClear == InitDedupeRun /\ [][NextDedupeClear]_vars
SpecRetry == InitRetryRun /\ [][NextRetry]_vars /\ FairRetry
SpecDispatch == InitDispatchRun /\ [][NextDispatch]_vars
SpecMemQueue == InitMemQueueRun /\ [][NextMemQueue]_vars
SpecPersist == InitPersistRun /\ [][NextPersist]_vars
SpecFlow == InitFlowRun /\ [][NextFlow]_vars

----------------------------------------------------------------------------
(* Rate guard: the claims *)

(* The guarded calls on key k whose operation was invoked and that arrived *)
(* (rateGuard.ts:165) in the closed interval [lo, hi].                     *)
InvokedIn(k, lo, hi) ==
    {d \in CallIds : /\ calls[d].invoked
                     /\ calls[d].guarded
                     /\ calls[d].key = k
                     /\ lo <= calls[d].at
                     /\ calls[d].at <= hi}

(* Every window of length windowMs that holds an invoked call of the key   *)
(* holds one that starts at such a call, so these windows are enough.      *)
WindowBound ==
    \A c \in CallIds :
        (calls[c].invoked /\ calls[c].guarded) =>
            Cardinality(InvokedIn(calls[c].key, calls[c].at, calls[c].at + cfg.windowMs))
                <= cfg.maxRequests

(* C1 as stated: with strategy 'block' and the guard enabled throughout,   *)
(* at most maxRequests invoked calls of a guarded key arrive in any window *)
(* of length windowMs, whatever the rest of the configuration.             *)
C1_AnyConfig == (cfg.overflowStrategy = "block" /\ flagChanges = 0) => WindowBound

(* C1 amended: the same, for a guard that counts failed requests           *)
(* (countOnFailure = true, the default).                                   *)
C1_WindowLimit ==
    (cfg.overflowStrategy = "block" /\ flagChanges = 0 /\ cfg.countOnFailure)
        => WindowBound

(* C1's case: a window is full (maxRequests invoked calls) and a further   *)
(* call arriving in it was turned away.                                    *)
C1_Witness ==
    /\ cfg.overflowStrategy = "block" /\ flagChanges = 0 /\ cfg.countOnFailure
    /\ \E c \in CallIds :
          /\ calls[c].overflow = "threshold_exceeded"
          /\ calls[c].result.type = "ApiRunawayBlockedError"
          /\ ~calls[c].invoked
          /\ Cardinality(InvokedIn(calls[c].key, calls[c].at - cfg.windowMs, calls[c].at))
                = cfg.maxRequests

(* C2: with strategy 'drop', a call to which the overflow strategy was     *)
(* applied (the bucket was blocked, or the call pushed the count above     *)
(* maxRequests) never has its operation invoked, and it resolves with      *)
(* undefined: it never settles with the operation's outcome.               *)
C2_DropNeverInvokes ==
    cfg.overflowStrategy = "drop" =>
        \A c \in CallIds :
            calls[c].overflow # "none" =>
                /\ ~calls[c].invoked
                /\ calls[c].result.type \notin {"ok", "fail"}

(* Call c arrives with key k in this step. *)
Arrives(c, k) == calls[c].pc = "idle" /\ calls'[c].pc # "idle" /\ calls'[c].key = k

(* The bucket of key k is blocked now. *)
BlockedNow(k) == HasBucket(k) /\ buckets[k].blockedUntil > now

(* What C3 promises to a call c of key k that arrives now: rejected with   *)
(* the typed error built from the bucket and the configuration, operation  *)
(* not invoked.                                                            *)
RejectedBlocked(c, k) ==
    /\ calls'[c].pc = "done"
    /\ ~calls'[c].invoked
    /\ calls'[c].result =
          [ type |-> "ApiRunawayBlockedError", key |-> k,
            until |-> buckets[k].blockedUntil,
            windowMs |-> cfg.windowMs, maxRequests |-> cfg.maxRequests ]

(* C3 as stated: with strategy 'block', every call that arrives while the  *)
(* key's blockedUntil > now is rejected with that error and not invoked.   *)
C3_EveryArrival ==
    [][\A c \in CallIds, k \in Keys :
          (cfg.overflowStrategy = "block" /\ Arrives(c, k) /\ BlockedNow(k))
              => RejectedBlocked(c, k)]_vars

(* C3 amended: with strategy 'block' and the guardEnabled flag set, every  *)
(* call that arrives while the key's blockedUntil > now is rejected with   *)
(* an ApiRunawayBlockedError carrying the key, until = the bucket's        *)
(* blockedUntil and the configured windowMs/maxRequests, and a call so     *)
(* rejected never has its operation invoked.                               *)
C3_BlockedRejects ==
    /\ [][\A c \in CallIds, k \in Keys :
            (cfg.overflowStrategy = "block" /\ guardEnabled
               /\ Arrives(c, k) /\ BlockedNow(k))
                => RejectedBlocked(c, k)]_vars
    /\ [](\A c \in CallIds :
            calls[c].result.type = "ApiRunawayBlockedError" => ~calls[c].invoked)

(* C3's case: a call found the bucket blocked and was rejected. *)
C3_Witness ==
    \E c \in CallIds :
        /\ cfg.overflowStrategy = "block"
        /\ calls[c].overflow = "blocked_active"
        /\ calls[c].result.type = "ApiRunawayBlockedError"
        /\ calls[c].result.until > calls[c].at
        /\ ~calls[c].invoked

(* The guarded calls on key k whose operation was invoked in the closed   *)
(* interval [lo, hi].                                                     *)
RunIn(k, lo, hi) ==
    {d \in CallIds : /\ calls[d].invoked
                     /\ calls[d].guarded
                     /\ calls[d].key = k
                     /\ lo <= calls[d].invokedAt
                     /\ calls[d].invokedAt <= hi}

(* C38: with strategy 'queue', the guard enabled throughout and failures  *)
(* counted, at most maxRequests operations of a key are invoked within    *)
(* any window of length windowMs, also when suspended callers are         *)
(* released together.                                                     *)
C38_QueueKeepsLimit ==
    (cfg.overflowStrategy = "queue" /\ flagChanges = 0 /\ cfg.countOnFailure)
      => \A c \in CallIds :
            (calls[c].invoked /\ calls[c].guarded)
              => Cardinality(RunIn(calls[c].key, calls[c].invokedAt,
                                   calls[c].invokedAt + cfg.windowMs))
                   <= cfg.maxRequests

----------------------------------------------------------------------------
(* Circuit breaker: the claims *)

(* Call c arrives on key k in this step; it settles in this step. *)
BArrives(c, k) == bcalls[c].pc = "idle" /\ bcalls'[c].pc # "idle" /\ bcalls'[c].key = k
BSettles(c, k) == bcalls[c].pc = "running" /\ bcalls'[c].pc = "done" /\ bcalls[c].key = k

(* The key's breaker is open and still cooling / open with the cooldown over. *)
Cooling(k) == HasBreaker(k) /\ breakers[k].state = "open" /\ now < breakers[k].nextTry
Cooled(k) == HasBreaker(k) /\ breakers[k].state = "open" /\ now >= breakers[k].nextTry

(* After this step the key's breaker is open until now + cooldownMs. *)
OpensNow(k) ==
    /\ breakers'[k].state = "open"
    /\ breakers'[k].nextTry = now + breakers'[k].cfg.cooldownMs

(* C4: the failure that makes failureThreshold (or more) failures in a row *)
(* leaves the breaker open with nextTry = the time of that failure +       *)
(* cooldownMs; and a call that starts while the breaker is open and        *)
(* now < nextTry is rejected with an ApiCircuitOpenError, its operation    *)
(* not invoked.                                                            *)
C4_OpensAndFailsFast ==
    [][\A k \in BreakerKeys :
          /\ (streak'[k] # streak[k] /\ streak'[k] >= breakers'[k].cfg.failureThreshold)
                => OpensNow(k)
          /\ \A c \in BCallIds :
                (BArrives(c, k) /\ Cooling(k)) =>
                    /\ bcalls'[c].pc = "done"
                    /\ bcalls'[c].admitted = "no"
                    /\ bcalls'[c].outcome.name = "ApiCircuitOpenError"
                    /\ breakers'[k] = breakers[k]]_vars

(* C4's case: failureThreshold failures in a row have opened the breaker   *)
(* and a later call was refused while it was cooling.                      *)
C4_Witness ==
    \E k \in BreakerKeys, c \in BCallIds :
        /\ HasBreaker(k)
        /\ streak[k] >= breakers[k].cfg.failureThreshold
        /\ breakers[k].cfg.failureThreshold > 1
        /\ breakers[k].state = "open"
        /\ bcalls[c].outcome = mkErr("open", k, breakers[k].nextTry)
        /\ bcalls[c].admitted = "no"

(* The arrival part and the success part of C5: a call that arrives at an  *)
(* open breaker at a time >= nextTry makes it half-open and has its        *)
(* operation invoked; when that operation succeeds the breaker is closed   *)
(* with failures = 0.                                                      *)
C5_Probe(c, k) ==
    /\ (BArrives(c, k) /\ Cooled(k)) =>
          /\ breakers'[k].state = "half"
          /\ bcalls'[c].pc = "running"
          /\ bcalls'[c].admitted = "reopen"
    /\ (BSettles(c, k) /\ bcalls[c].admitted = "reopen" /\ bcalls'[c].outcome = Resolved) =>
          /\ breakers'[k].state = "closed"
          /\ breakers'[k].failures = 0

ProbesInFlight(k) ==
    {c \in BCallIds : /\ bcalls[c].pc = "running"
                      /\ bcalls[c].key = k
                      /\ bcalls[c].admitted \in {"reopen", "half"}}

(* C6: 0 <= halfOpenInFlight <= halfOpenMax, and never more than           *)
(* halfOpenMax operations run as half-open probes at the same time.        *)
C6_ProbesBounded ==
    \A k \in DOMAIN breakers :
        /\ 0 <= breakers[k].halfOpenInFlight
        /\ breakers[k].halfOpenInFlight <= breakers[k].cfg.halfOpenMax
        /\ Cardinality(ProbesInFlight(k)) <= breakers[k].cfg.halfOpenMax

(* C28: halfOpenInFlight is incremented when a probe is admitted and       *)
(* decremented when its operation settles, on success and on failure, so   *)
(* it always equals the number of admitted probes still in flight.         *)
C28_CounterTracksProbes ==
    \A k \in DOMAIN breakers :
        breakers[k].halfOpenInFlight = Cardinality(ProbesInFlight(k))

(* The breaker of key k is half-open with halfOpenMax probes counted. *)
Saturated(k) ==
    /\ HasBreaker(k)
    /\ breakers[k].state = "half"
    /\ breakers[k].halfOpenInFlight = breakers[k].cfg.halfOpenMax

(* C29: a call that arrives while the breaker is half-open and             *)
(* halfOpenInFlight equals halfOpenMax is rejected with a 'half-saturated' *)
(* error, its operation is not invoked, and failures, state, nextTry and   *)
(* halfOpenInFlight stay as they are.                                      *)
C29_SaturatedRejects ==
    [][\A c \in BCallIds, k \in BreakerKeys :
          BArrives(c, k) /\ Saturated(k)
            => /\ bcalls'[c].pc = "done"
               /\ bcalls'[c].admitted = "no"
               /\ bcalls'[c].outcome.name = "ApiCircuitOpenError"
               /\ bcalls'[c].outcome.circuit = "half-saturated"
               /\ breakers'[k] = breakers[k]]_vars

(* A call was rejected as half-saturated while a probe was in flight. *)
C29_Witness ==
    \E c \in BCallIds :
        /\ bcalls[c].pc = "done"
        /\ bcalls[c].outcome.circuit = "half-saturated"
        /\ breakers[bcalls[c].key].state = "half"
        /\ breakers[bcalls[c].key].halfOpenInFlight = breakers[bcalls[c].key].cfg.halfOpenMax

(* The state of key k's breaker changes in this step along one of the      *)
(* transitions of the state machine.                                        *)
AllowedTransition(k) ==
    LET b == breakers[k]
        nb == breakers'[k]
    IN  \/ /\ b.state = "closed" /\ nb.state = "open"
           /\ nb.failures >= b.cfg.failureThreshold
           /\ \E c \in BCallIds : BSettles(c, k) /\ bcalls'[c].outcome = Rejected
        \/ /\ b.state = "open" /\ nb.state = "half"
           /\ now >= b.nextTry
           /\ \E c \in BCallIds : BArrives(c, k)
        \/ /\ b.state = "half" /\ nb.state = "closed"
           /\ \E c \in BCallIds : BSettles(c, k) /\ bcalls'[c].outcome = Resolved
        \/ /\ b.state = "half" /\ nb.state = "open"
           /\ \E c \in BCallIds : BSettles(c, k) /\ bcalls'[c].outcome = Rejected

(* C30: under every interleaving of calls on a key the breaker state       *)
(* changes only closed->open, open->half-open, half-open->closed and       *)
(* half-open->open; an open breaker never becomes closed directly.         *)
C30_StateMachine ==
    [][\A k \in DOMAIN breakers :
          breakers'[k].state # breakers[k].state => AllowedTransition(k)]_vars

(* The action that belongs to a change of state from s to t (none when    *)
(* the state stays).                                                       *)
ActionsOfChange(s, t) ==
    IF s = t THEN <<>>
    ELSE IF t = "open" THEN <<"api_circuit_open">>
    ELSE IF t = "half" THEN <<"api_circuit_half_open">>
    ELSE <<"api_circuit_closed">>

(* C31: a step of the breaker emits api_circuit_open, api_circuit_half_open *)
(* or api_circuit_closed exactly once for the change of state it makes and  *)
(* emits none of them when the state does not change.                       *)
C31_ActionPerTransition ==
    [][\A c \in BCallIds, k \in BreakerKeys :
          BArrives(c, k) \/ BSettles(c, k)
            => bactions' = ActionsOfChange(getBreaker(k, <<>>).state,
                                           breakers'[k].state)]_vars

----------------------------------------------------------------------------
(* De-duplication: the claims *)

DArrives(c, k) ==
    dcalls[c].pc = "idle" /\ dcalls'[c].pc = "returned" /\ dcalls'[c].key = k

(* The executions for key k that were started and have not settled *)
InFlightExecutions(k) ==
    {e \in DCallIds : entries[e].key = k /\ entries[e].st \in {"scheduled", "running"}}

(* C7 as stated: in every reachable state, clearDedupe calls included, at   *)
(* most one execution started by dedupe for a key is in flight.             *)
C7_SingleFlight ==
    \A k \in DedupeKeys : Cardinality(InFlightExecutions(k)) <= 1

(* C7, amended: at most one execution per key is in flight, for every key   *)
(* whose entry clearDedupe has not removed while it was pending.            *)
C7_SingleFlightUnlessCleared ==
    \A k \in DedupeKeys \ cleared : Cardinality(InFlightExecutions(k)) <= 1

(* clearDedupe has removed an entry, and an execution shared by two callers *)
(* is the only one in flight for its key.                                   *)
C7_Witness ==
    /\ clears > 0
    /\ \E k \in DedupeKeys \ cleared : \E e \in InFlightExecutions(k) :
          \E c \in DCallIds \ {e} :
             dcalls[c].pc = "returned" /\ dcalls[c].promise.of = e

C9_RejectionNotCached ==
    /\ [][\A e \in DCallIds :
            entries[e].st = "running" /\ entries'[e].st = "rejected"
              => entries[e].key \notin DOMAIN inFlight']_vars
    /\ [][\A c \in DCallIds, k \in rejectedKeys :
            DArrives(c, k)
              => /\ dcalls'[c].started
                 /\ entries'[c].st = "scheduled"
                 /\ inFlight'[k] = c]_vars
    /\ [](\A c \in DCallIds :
            dcalls[c].pc = "returned" /\ entries[dcalls[c].promise.of].st = "rejected"
              => Settlement(dcalls[c].promise)
                   = [kind |-> "error", of |-> dcalls[c].promise.of])

(* An op called with a ttl rejected, and the next call for its key started  *)
(* a new execution.                                                         *)
C9_Witness ==
    \E e \in DCallIds : \E c \in DCallIds :
       /\ c = e + 1
       /\ clears = 0
       /\ entries[e].st = "rejected" /\ entries[e].ttlMs > 0
       /\ dcalls[c].pc = "returned" /\ dcalls[c].key = entries[e].key
       /\ dcalls[c].started

(* The execution the latest fresh call for key k started, 0 if none *)
LatestExec(k) ==
    LET es == {e \in DCallIds : entries[e].st # "unused" /\ entries[e].key = k}
    IN  IF es = {} THEN 0 ELSE CHOOSE e \in es : \A x \in es : x <= e

----------------------------------------------------------------------------
(* Retry: the claims *)

(* The invocations of op that rejected so far *)
Rejections ==
    IF rcall.pc = "done" /\ rcall.outcome.kind = "value" THEN rcall.invocations - 1
    ELSE IF rcall.pc = "op" THEN rcall.invocations - 1
    ELSE rcall.invocations

(* C11: with shouldRetry always true, a retry call is over only after op    *)
(* resolved or rejected more than `retries` times; when op resolves after   *)
(* k <= retries rejections, retry resolves with the value of that           *)
(* invocation, op has been invoked exactly k + 1 times, and nothing happens *)
(* afterwards.                                                              *)
C11_ResolvesAfterKFailures ==
    /\ [](rcall.pc = "done" /\ rcall.cfg.shouldRetry = "always"
             /\ Rejections <= rcall.cfg.retries
           => /\ rcall.outcome = [kind |-> "value", of |-> Rejections + 1]
              /\ rcall.invocations = Rejections + 1)
    /\ [][rcall.pc = "op" /\ rcall.cfg.shouldRetry = "always"
             /\ rcall'.outcome.kind = "value"
           => /\ rcall'.pc = "done"
              /\ rcall'.outcome.of = rcall.invocations
              /\ rcall'.invocations = rcall.invocations]_vars
    /\ [][rcall.pc = "done" => rcall' = rcall]_vars

(* op rejected twice and then resolved: three invocations, the third value. *)
C11_Witness ==
    /\ rcall.pc = "done" /\ rcall.cfg.shouldRetry = "always"
    /\ rcall.cfg.retries = MaxRetries
    /\ rcall.invocations = MaxRetries + 1
    /\ rcall.outcome = [kind |-> "value", of |-> MaxRetries + 1]

(* C12: with shouldRetry always true, a retry call whose every invocation   *)
(* rejects ends: it is rejected with the error of the last invocation,      *)
(* after exactly retries + 1 invocations.                                   *)
C12_RejectsAfterAllRetries ==
    /\ [](rcall.pc = "done" /\ rcall.cfg.shouldRetry = "always"
             /\ rcall.outcome.kind = "error"
           => /\ rcall.invocations = rcall.cfg.retries + 1
              /\ rcall.outcome.of = rcall.invocations)
    /\ [](rcall.cfg.shouldRetry = "always" => rcall.invocations <= rcall.cfg.retries + 1)
    /\ (rcall.pc # "idle" ~> rcall.pc = "done")

(* All retries + 1 invocations rejected, with waits in between. *)
C12_Witness ==
    /\ rcall.pc = "done" /\ rcall.cfg.shouldRetry = "always"
    /\ rcall.cfg.retries = MaxRetries
    /\ Len(rcall.delays) = MaxRetries
    /\ rcall.outcome = [kind |-> "error", of |-> MaxRetries + 1]

(* The invocation of op that is awaited rejects in this step. *)
OpRejects == rcall.pc = "op" /\ rcall'.lastErr = rcall.invocations

(* C32: when an invocation rejects and shouldRetry(err, attempt) is false   *)
(* (attempt 0 is the initial try), retry invokes op no more, waits no       *)
(* backoff and rejects with that error, after exactly attempt + 1           *)
(* invocations.                                                             *)
C32_StopsWhenPredicateRefuses ==
    /\ [][OpRejects /\ ~shouldRetry(rcall.cfg.shouldRetry, rcall.attempt)
           => /\ rcall'.pc = "done"
              /\ rcall'.outcome = [kind |-> "error", of |-> rcall.invocations]
              /\ rcall'.invocations = rcall.attempt + 1
              /\ rcall'.delays = rcall.delays]_vars
    /\ [][rcall.pc = "done" => rcall' = rcall]_vars

(* The predicate allowed one retry and refused the second, with retries    *)
(* left: two invocations, one wait, the second error.                      *)
C32_Witness ==
    /\ rcall.pc = "done" /\ rcall.cfg.shouldRetry = "firstOnly"
    /\ rcall.cfg.retries = MaxRetries
    /\ rcall.attempt = 1 /\ rcall.invocations = 2
    /\ Len(rcall.delays) = 1
    /\ rcall.outcome = [kind |-> "error", of |-> 2]

(* C33: every delay retry waits is at least 0 and at most maxMs, with      *)
(* jitter on or off; without jitter the delay before retry number i is     *)
(* min(baseMs * factor^(i - 1), maxMs).                                    *)
C33_DelayWithinMax ==
    \A i \in 1..Len(rcall.delays) :
        /\ 0 <= rcall.delays[i]
        /\ rcall.delays[i] <= rcall.cfg.maxMs
        /\ ~rcall.cfg.jitter
             => rcall.delays[i] =
                  min2(rcall.cfg.baseMs * pow(rcall.cfg.factor, i - 1), rcall.cfg.maxMs)

----------------------------------------------------------------------------
(* Dispatch core: the claims *)

(* The step is an addAction or addError call. *)
DispatchCall == dlast'.ev = dlast.ev + 1

(* What the step appended to the log *)
Delivered == SubSeq(dlog', Len(dlog) + 1, Len(dlog'))

(* C13: an addAction or addError call made while initDatadog has not        *)
(* completed, or while the telemetryEnabled flag is false, calls neither    *)
(* the real sender nor the enqueue hook; the flag that counts is the one at *)
(* the time of the call.                                                    *)
C13_GatedDelivery ==
    [][DispatchCall /\ (~isInitialized \/ ~telemetryEnabled) => dlog' = dlog]_vars

(* A call delivered, telemetry was switched off, and the very next call,    *)
(* sampled in, delivered nothing.                                           *)
C13_Witness ==
    /\ isInitialized /\ ~telemetryEnabled
    /\ dlast.ev >= 2 /\ dlast.passed
    /\ \E i \in 1..Len(dlog) : dlog[i].ev = dlast.ev - 1
    /\ \A i \in 1..Len(dlog) : dlog[i].ev # dlast.ev

(* C14: no addAction or addError call throws to its caller, in any state    *)
(* and whether or not the hook it calls throws.                             *)
C14_NeverThrows == ~dlast.threw

(* The last call's hook threw, and the call returned normally. *)
C14_Witness ==
    /\ ~dlast.threw
    /\ \E i \in 1..Len(dlog) : dlog[i].ev = dlast.ev /\ dlog[i].threw

(* C15 as stated: a call that passes the initialization, flag and sampling  *)
(* gates calls the enqueue hook exactly once, and not the sender, if        *)
(* navigator.onLine is false and a hook is registered; otherwise it calls   *)
(* the real sender exactly once and not the hook.                           *)
C15_RoutedExactlyOnce ==
    [][DispatchCall /\ gatesOpen(dlast'.passed)
         => /\ Len(Delivered) = 1
            /\ Delivered[1].ev = dlast'.ev
            /\ Delivered[1].to = IF navigator = "offline" /\ enqueueHook
                                   THEN "enqueue" ELSE "sender"]_vars

----------------------------------------------------------------------------
(* In-memory offline queue: the claims *)

(* The last n elements of a sequence *)
LastN(seq, n) == SubSeq(seq, Len(seq) - n + 1, Len(seq))

(* C16 as stated: when the online event fires with navigator.onLine true,   *)
(* the real addAction/addError are called for exactly the last min(k, M) of *)
(* the k events submitted while offline, once each and in submission order, *)
(* and the queue is empty afterwards.                                       *)
C16_FlushLastM ==
    [][installed /\ installed' /\ navigator = "online" /\ realLog' # realLog
         /\ submitted' = submitted
       => /\ realLog' = realLog
                  \o LastN(offlineSince, min2(Len(offlineSince), maxBuffered))
          /\ queue' = <<>>]_vars

(* C17 as stated: the number of buffered events is at most maxBuffered, for *)
(* every non-negative maxBuffered, and enqueueing evicts nothing but the    *)
(* oldest event.                                                            *)
C17_BoundedOldestFirst ==
    /\ [](installed => Len(queue) <= maxBuffered)
    /\ [][submitted' = submitted + 1 /\ queue' # queue
           => \/ queue' = Append(queue, queue'[Len(queue')])
              \/ queue' = Append(Tail(queue), queue'[Len(queue')])]_vars

----------------------------------------------------------------------------
(* Persistent offline queue: the claims *)

(* C18 as stated: from the install onwards, whatever the storage key held,  *)
(* the queue holds at most maxBuffered events and no list written to        *)
(* storage has more than maxBuffered entries.                               *)
C18_BoundedByMaxBuffered ==
    /\ [](pinstalled => Len(q) <= pcfg.maxBuffered)
    /\ [][pinstalled' /\ storage' # storage
           => Len(storage'.items) <= pcfg'.maxBuffered]_vars

(* The events are in the order in which they were handed over. *)
InEnqueueOrder(events) ==
    \A i, j \in 1..Len(events) : i < j => events[i].id < events[j].id

(* A step in which tryFlush ran past its early returns *)
FlushStep == pflush'.ran /\ (pflush' # pflush \/ q' # q \/ storage' # storage)

(* The queue that flush started from: the one just loaded, on install *)
FlushedQueue == IF pflush'.onInit THEN readLS(storage) ELSE q

NoneOf(events, others) ==
    \A i \in 1..Len(events) : \A j \in 1..Len(others) : others[j] # events[i]

(* C19 as stated: a flush sends the loaded events in their enqueue order,   *)
(* removes each sent event from the queue and rewrites the storage entry    *)
(* without it.                                                              *)
C19_FifoFlush ==
    [][FlushStep
       => /\ InEnqueueOrder(FlushedQueue)
          /\ pflush'.sent = SubSeq(FlushedQueue, 1, Len(pflush'.sent))
          /\ NoneOf(pflush'.sent, q')
          /\ storage'.kind = "list" /\ NoneOf(pflush'.sent, storage'.items)]_vars

(* C19, amended: a flush sends the events of the queue, as loaded from      *)
(* storage, oldest first in their enqueue order and removes each sent event *)
(* from the queue; when the storage write that ends the flush succeeds, the *)
(* storage entry is exactly the remaining queue.                            *)
C19_FifoFlushWhenWritten ==
    [][FlushStep
       => /\ InEnqueueOrder(FlushedQueue)
          /\ pflush'.sent = SubSeq(FlushedQueue, 1, Len(pflush'.sent))
          /\ NoneOf(pflush'.sent, q')
          /\ pflush'.wrote => storage' = StoredList(q')]_vars

(* Two events handed over in this run, written to storage and loaded by a   *)
(* later install, were flushed on that install and the write succeeded.     *)
C19_Witness ==
    /\ pflush.ran /\ pflush.onInit /\ pflush.wrote
    /\ Len(pflush.sent) >= 2
    /\ pflush.sent[1].id > MaxStored

(* C20 as stated: when the i-th send throws, events 1..i-1 were sent and    *)
(* removed, nothing after the i-th was sent, events i.. stay in the queue   *)
(* in order with the failed event at the head, and storage holds exactly    *)
(* those events.                                                            *)
C20_StopsAtFailure ==
    [][FlushStep /\ pflush'.failAt > 0
       => /\ pflush'.sent = SubSeq(FlushedQueue, 1, pflush'.failAt - 1)
          /\ q' = SubSeq(FlushedQueue, pflush'.failAt, Len(FlushedQueue))
          /\ storage' = StoredList(q')]_vars

(* C20, amended: when the i-th send throws, events 1..i-1 were sent and     *)
(* nothing after them; when the first attempt of the storage write that     *)
(* ends the flush succeeds, events i.. stay in the queue in order with the  *)
(* failed event at the head and storage holds exactly those events.         *)
C20_StopsAtFailureWhenWritten ==
    [][FlushStep /\ pflush'.failAt > 0
       => /\ pflush'.sent = SubSeq(FlushedQueue, 1, pflush'.failAt - 1)
          /\ pflush'.wrote /\ pflush'.attempts = 1
               => /\ q' = SubSeq(FlushedQueue, pflush'.failAt, Len(FlushedQueue))
                  /\ storage' = StoredList(q')]_vars

(* A flush sent an event, the next send threw, and the failed event and one *)
(* more stayed in the queue and were written.                               *)
C20_Witness ==
    /\ pflush.ran /\ pflush.failAt >= 2
    /\ pflush.wrote /\ pflush.attempts = 1
    /\ Len(q) >= 2
    /\ storage = StoredList(q)

----------------------------------------------------------------------------
(* Offline queues: delivery of the accepted events *)

InSeq(x, seq) == \E i \in 1..Len(seq) : seq[i] = x

(* What the two caps of push keep of the queue and one more event *)
CapKept ==
    dropToByteCap(trimToMaxBuffered(Append(q, QueuedEvent(MaxStored + handed + 1, "a"))),
                  pcfg.byteCap)

(* C21 as stated, for the persistent queue while it stays installed: an     *)
(* accepted event is not silently discarded; it leaves the queue only when  *)
(* a flush passes it to the real sender or when an enqueue evicts it for    *)
(* one of the configured caps (maxBuffered, byteCap).                       *)
C21_NoSilentDiscard ==
    [][pinstalled /\ pinstalled'
       => \A i \in 1..Len(q) :
            \/ InSeq(q[i], q')
            \/ InSeq(q[i], pflush'.sent)
            \/ handed' # handed /\ ~InSeq(q[i], CapKept)]_vars

----------------------------------------------------------------------------
(* Rate guard, strategy 'queue': the claims on suspended callers *)

Waiting(c) == calls[c].pc \in {"wait1", "wait2"}

(* Call c is released in this step: its resolver was called. *)
Released(c) == Waiting(c) /\ calls'[c].pc \in {"resume1", "resume2"}

(* C22 as stated: a suspended caller is released, and so its operation      *)
(* invoked, no earlier than the blockedUntil it was suspended on, and a     *)
(* release empties the bucket's waiters list in one batch.                  *)
C22_ReleasedAfterBlock ==
    [][\A c \in CallIds :
          Released(c)
            => /\ now >= calls[c].until
               /\ buckets'[calls[c].key].waiters = <<>>]_vars

(* C23: with strategy 'queue' every suspended caller is eventually released *)
(* and its operation invoked, also when reset removes the bucket it waits   *)
(* on, given that continuations run, due timers fire and time passes.       *)
C23_WaitersReleased ==
    \A c \in CallIds : Waiting(c) ~> calls[c].invoked

(* A caller whose bucket was reset while it waited has been invoked. *)
C23_Witness ==
    \E c \in CallIds :
        /\ calls[c].invoked
        /\ calls[c].bucket \notin Keys \cup {""}

(* The beforeRequest of call c returned through the kill switch            *)
(* (rateGuard.ts:168): the call is guarded, met no overflow and left no hit. *)
KillSwitched(c) ==
    /\ calls[c].guarded
    /\ calls[c].pc \in {"ready", "running"}
    /\ calls[c].overflow = "none"
    /\ calls[c].hit = 0

(* Call c takes a step of a guard call made while the flag is false. *)
DisabledStep(c) ==
    /\ ~guardEnabled
    /\ calls'[c] # calls[c]
    /\ calls[c].pc = "idle" \/ KillSwitched(c)

(* C24: while guardEnabled is false, no step of a guard/guardFetch call     *)
(* made under the false flag changes the guard's state: no bucket is        *)
(* created, hits, blockedUntil and lastReportAt stay as they are, whether   *)
(* the operation succeeds or fails and whatever countOnFailure is.          *)
C24_DisabledLeavesState ==
    [][(\E c \in CallIds : DisabledStep(c)) => buckets' = buckets]_vars

(* seq without one entry equal to x (seq itself when it holds none) *)
WithoutOne(seq, x) ==
    IF \E i \in 1..Len(seq) : seq[i] = x
      THEN LET i == CHOOSE j \in 1..Len(seq) :
                      seq[j] = x /\ \A m \in 1..(j - 1) : seq[m] # x
           IN  SubSeq(seq, 1, i - 1) \o SubSeq(seq, i + 1, Len(seq))
      ELSE seq

(* The guarded operation of call c, which recorded a hit, fails in this step. *)
FailsCounted(c) ==
    /\ calls[c].pc = "running"
    /\ calls[c].guarded
    /\ calls[c].hit # 0
    /\ calls'[c].pc = "done"
    /\ calls'[c].result = FailResult

(* C25: with countOnFailure = false the failure of a guarded operation      *)
(* removes from hits the timestamp recorded for that same call, so hits is  *)
(* what it would be without the call, under any interleaving of calls on    *)
(* the key; with countOnFailure = true the timestamp stays.                 *)
C25_RollsBackOwnHit ==
    [][\A c \in CallIds :
          FailsCounted(c) /\ HasBucket(calls[c].key)
            => buckets'[calls[c].key].hits =
                 IF cfg.countOnFailure
                   THEN buckets[calls[c].key].hits
                   ELSE WithoutOne(buckets[calls[c].key].hits, calls[c].hit)]_vars

(* Call c arrives in this step and exceeds the limit of its key. *)
ExceedsLimit(c) ==
    /\ calls[c].pc = "idle"
    /\ calls'[c].overflow = "threshold_exceeded"

(* hits of key k, empty while the key has no bucket *)
HitsOf(bs, k) == IF k \in DOMAIN bs THEN bs[k].hits ELSE <<>>

(* C26: with strategy 'block' or 'drop' every bucket holds at most          *)
(* maxRequests hits, and a call that exceeds the limit sets blockedUntil to *)
(* now + blockDurationMs (windowMs when none is configured) and leaves hits *)
(* as it was before the call.                                               *)
C26_HitsBounded ==
    /\ [](\A k \in DOMAIN buckets : Len(buckets[k].hits) <= cfg.maxRequests)
    /\ [][\A c \in CallIds :
             ExceedsLimit(c)
               => /\ buckets'[calls'[c].key].blockedUntil = now + cfg.blockDurationMs
                  /\ buckets'[calls'[c].key].hits = HitsOf(buckets, calls'[c].key)]_vars

(* A call exceeded the limit of a bucket that holds maxRequests hits. *)
C26_Witness ==
    \E c \in CallIds :
        /\ calls[c].overflow = "threshold_exceeded"
        /\ HasBucket(calls[c].key)
        /\ Len(buckets[calls[c].key].hits) = cfg.maxRequests
        /\ buckets[calls[c].key].blockedUntil = calls[c].at + cfg.blockDurationMs

(* The beforeRequest of call c, run with the guard enabled, returns or      *)
(* throws in this step.                                                     *)
CompletesBeforeRequest(c) ==
    /\ guardEnabled
    /\ calls[c].pc \in {"idle", "resume1", "resume2"}
    /\ calls'[c].guarded
    /\ calls'[c].pc \in {"ready", "done"}

NonDecreasing(seq) == \A i \in 1..(Len(seq) - 1) : seq[i] <= seq[i + 1]

(* C27: after every completed beforeRequest on a key the bucket's hits is   *)
(* in non-decreasing order and holds no timestamp older than the current    *)
(* time - windowMs, for all three overflow strategies.                      *)
C27_HitsOrderedInWindow ==
    [][\A c \in CallIds :
          CompletesBeforeRequest(c)
            => LET hits == HitsOf(buckets', calls'[c].key)
               IN  /\ NonDecreasing(hits)
                   /\ \A i \in 1..Len(hits) : hits[i] >= now - cfg.windowMs]_vars

(* a is what is left of b when a prefix of b is removed *)
IsSuffix(a, b) ==
    Len(a) <= Len(b) /\ a = SubSeq(b, Len(b) - Len(a) + 1, Len(b))

(* kept is a correct result of pushing ev onto events: within the byte cap *)
(* or empty, and events with ev appended minus a prefix.                   *)
PushedWithinCaps(kept, events, ev) ==
    /\ stringifyLength(kept) <= pcfg.byteCap \/ kept = <<>>
    /\ IsSuffix(kept, Append(events, ev))

(* The event handed to the enqueue hook in this step was sent at once. *)
SentAtOnce ==
    /\ q' = q /\ writeTimer' = writeTimer
    /\ \E t \in {"a", "e"} : navigator = "online" /\ senders[senderOf(t)]

(* C34: after every push to the persistent queue the serialized queue is   *)
(* at most byteCap long or the queue is empty, and what the two caps       *)
(* removed is a prefix of the queue: no newer event is dropped while an    *)
(* older one is kept.                                                      *)
C34_PushKeepsNewest ==
    [][pinstalled /\ handed' = handed + 1
         => \/ SentAtOnce
            \/ \E t \in {"a", "e"} :
                  PushedWithinCaps(q', q, QueuedEvent(MaxStored + handed + 1, t))]_vars

(* A push dropped the oldest event for a cap and kept the newest: the      *)
(* event handed over first was queued and written, storage has room, and   *)
(* the queue holds the event handed over last alone.                       *)
C34_Witness ==
    /\ pinstalled /\ handed = MaxPEvents
    /\ quota = DefaultByteCap
    /\ storage.kind = "list"
    /\ \E i \in 1..Len(storage.items) : storage.items[i].id = MaxStored + 1
    /\ Len(q) = 1
    /\ q[1].id = MaxStored + handed
    /\ stringifyLength(q) <= pcfg.byteCap

(* The event handed to the enqueue hook in this step is pushed. *)
PushStep == pinstalled /\ handed' = handed + 1 /\ ~SentAtOnce

(* The write timer's callback runs in this step. *)
TimerWrites ==
    writeTimer.armed /\ ~writeTimer'.armed /\ ~pflush'.ran /\ pflush'.attempts > 0

(* After a push a write timer is pending that is due within                *)
(* writeDebounceMs, and time does not pass a pending timer.                *)
WriteWithinDebounce ==
    /\ [][PushStep => /\ writeTimer'.armed
                      /\ writeTimer'.at <= now + pcfg.writeDebounceMs]_vars
    /\ [](writeTimer.armed => now <= writeTimer.at)

(* C35 as stated: after a push a storage write is performed within         *)
(* writeDebounceMs by the one pending write timer, and that write leaves   *)
(* the list in storage equal to the in-memory queue.                       *)
C35_WrittenWithinDebounce ==
    /\ WriteWithinDebounce
    /\ [][TimerWrites => ~writeTimer'.armed /\ storage' = StoredList(q')]_vars

(* writeLS runs in this step, called by the timer or by tryFlush; Written  *)
(* is the array it is called with.                                         *)
WriteStep == TimerWrites \/ FlushStep

Written ==
    IF pflush'.ran
      THEN SubSeq(FlushedQueue, Len(pflush'.sent) + 1, Len(FlushedQueue))
      ELSE q

(* The array lengths for which the size of the aggressive drop is compared *)
(* with ceil(20%).                                                         *)
MaxDropLen == 16

(* The least k with k >= n / 5 *)
CeilFifth(n) == CHOOSE k \in 0..n : 5 * k >= n /\ (k = 0 \/ 5 * (k - 1) < n)

(* C36: a write whose first storage attempt throws on a non-empty queue    *)
(* drops the oldest ceil(20%) of the events and retries exactly once,      *)
(* swallowing a second throw; a write makes at most two attempts and       *)
(* drops nothing when the first attempt succeeds.                          *)
C36_OneAggressiveRetry ==
    /\ [](\A n \in 0..MaxDropLen : aggressiveDrop(StoredEvents(n)) = CeilFifth(n))
    /\ [][WriteStep
            => LET fewer == SubSeq(Written, CeilFifth(Len(Written)) + 1, Len(Written))
               IN  IF ~setItemThrows(Written)
                     THEN /\ pflush'.attempts = 1 /\ pflush'.wrote
                          /\ q' = Written
                          /\ storage' = StoredList(Written)
                   ELSE IF Written = <<>>
                     THEN /\ pflush'.attempts = 1 /\ ~pflush'.wrote
                          /\ q' = <<>>
                          /\ storage' = storage
                   ELSE /\ pflush'.attempts = 2
                        /\ q' = fewer
                        /\ storage' = IF pflush'.wrote THEN StoredList(fewer) ELSE storage
                        /\ pflush'.wrote = ~setItemThrows(fewer)]_vars

(* The first attempt threw, the oldest event was dropped and the retry     *)
(* stored what was left.                                                   *)
C36_Witness ==
    /\ pflush.attempts = 2 /\ pflush.wrote
    /\ q # <<>>
    /\ storage = StoredList(q)
    /\ quota = QuotaBound

(* The terminal actions emitted for flow f *)
Terminals(f) == SelectSeq(flowActions[f], LAMBDA a : a \in TerminalActions)

(* C37: each flow started with startFlow emits at most one terminal action *)
(* (flow_end, flow_fail or flow_cancel): after it has ended, failed or     *)
(* been cancelled by cancelAllFlows, end() and fail() emit nothing.        *)
C37_OneTerminalAction ==
    \A f \in FlowSlots : Len(Terminals(f)) <= 1

----------------------------------------------------------------------------
(* Request de-duplication: an execution and the entry it created *)

(* The execution of entry e settles in this step (part_012:77-101). *)
DSettles(e) ==
    entries[e].st = "running" /\ entries'[e].st \in {"resolved", "rejected"}

(* The eviction timer of entry e fires in this step (part_012:85-90). *)
EvictFires(e) == e \in dtimers /\ e \notin dtimers'

(* C39: a settling execution removes or converts only the map entry it      *)
(* created, never an entry a later dedupe call stored under the same key,   *)
(* and an eviction timer removes an entry only if that entry is cached and  *)
(* its expireAt has passed.                                                 *)
C39_SettlesOwnEntryOnly ==
    [][ /\ \A e \in DCallIds :
              DSettles(e) =>
                  \/ inFlight' = inFlight
                  \/ inFlightGet(entries[e].key) = e
        /\ \A e \in DCallIds :
              (EvictFires(e) /\ inFlight' # inFlight) =>
                  LET cur == inFlightGet(entries[e].key)
                  IN  /\ cur # 0
                      /\ entries[cur].state = "cached"
                      /\ entries[cur].expireAt <= now ]_vars

----------------------------------------------------------------------------
(* Persistent offline queue: the order in which events reach the sender *)

(* The event handed to the enqueue hook in this step goes straight to the  *)
(* real sender (offlineQueue.persistent.ts:140, 153).                      *)
DirectSend == pinstalled /\ handed' = handed + 1 /\ pflush'.direct # 0

(* The events handed to the hooks in this run that wait in the queue *)
WaitingHanded == {i \in 1..Len(q) : q[i].id > MaxStored}

(* C40: events reach the real sender in the order in which they were       *)
(* handed to the enqueue hooks: an event handed over while online is never *)
(* sent before an event that was handed over earlier and still waits in    *)
(* the queue.                                                              *)
C40_SentInHandedOrder ==
    [][DirectSend => \A i \in WaitingHanded : q[i].id > pflush'.direct]_vars

====
